---------------------------- MODULE Spec2Model ----------------------------
(***************************************************************************)
(* A model of svgling's tree layout engine (src/svgling/core.py): the tree *)
(* adapter (tree_split and friends), TreeOptions, NodePos, and TreeLayout  *)
(* with its three layout passes, path addressing, annotations and style    *)
(* overrides.                                                              *)
(*                                                                         *)
(* Numbers.  The program computes widths and heights in Python floats.     *)
(* The model computes them as exact rationals <<n, d>> (d > 0, lowest      *)
(* terms); IEEE rounding is not modelled.                                  *)
(*                                                                         *)
(* Strings.  A str is modelled by the lengths of its lines: "" is <<>>,    *)
(* "ab" is <<2>>, "ab\nc" is <<2, 1>>.                                     *)
(***************************************************************************)
EXTENDS Integers, Sequences, FiniteSets, TLC

(***************************************************************************)
(* Rational arithmetic                                                     *)
(***************************************************************************)
RECURSIVE Gcd(_, _)
Gcd(a, b) == IF b = 0 THEN a ELSE Gcd(b, a % b)

Abs(n) == IF n < 0 THEN -n ELSE n

\* n/d divided through by g, with a positive denominator
Reduce(n, d, g) ==
    IF d < 0 THEN <<(-n) \div g, (-d) \div g>> ELSE <<n \div g, d \div g>>

\* n/d in lowest terms with a positive denominator (d # 0)
R(n, d) == Reduce(n, d, Gcd(Abs(n), Abs(d)))

RInt(n) == <<n, 1>>
RAdd(a, b) == R(a[1] * b[2] + b[1] * a[2], a[2] * b[2])
RSub(a, b) == R(a[1] * b[2] - b[1] * a[2], a[2] * b[2])
RMul(a, b) == R(a[1] * b[1], a[2] * b[2])
RDiv(a, b) == R(a[1] * b[2], a[2] * b[1])
RLt(a, b) == a[1] * b[2] < b[1] * a[2]
RLe(a, b) == a[1] * b[2] <= b[1] * a[2]
RMax(a, b) == IF RLt(a, b) THEN b ELSE a
RMin(a, b) == IF RLt(b, a) THEN b ELSE a

RECURSIVE RSumFrom(_, _)
\* sum(s) for a sequence of rationals
RSumFrom(s, i) == IF i > Len(s) THEN RInt(0) ELSE RAdd(s[i], RSumFrom(s, i + 1))
RSum(s) == RSumFrom(s, 1)

RECURSIVE RMaxFrom(_, _, _)
RMaxFrom(s, i, acc) == IF i > Len(s) THEN acc ELSE RMaxFrom(s, i + 1, RMax(acc, s[i]))
\* max(s) for a non-empty sequence of rationals
RMaxSeq(s) == RMaxFrom(s, 2, s[1])

RECURSIVE IntMaxFrom(_, _, _)
IntMaxFrom(s, i, acc) ==
    IF i > Len(s) THEN acc ELSE IntMaxFrom(s, i + 1, IF s[i] > acc THEN s[i] ELSE acc)
\* max(s) for a non-empty sequence of integers
IntMaxSeq(s) == IntMaxFrom(s, 2, s[1])

RECURSIVE Flatten(_)
\* concatenation of a sequence of sequences
Flatten(ss) == IF ss = <<>> THEN <<>> ELSE Head(ss) \o Flatten(Tail(ss))

Min2(a, b) == IF a < b THEN a ELSE b

\* a sequence given as a function, with its elements evaluated once
Tup(f) == f \o <<>>

\* Python's None
None == [kind |-> "None"]

(***************************************************************************)
(* TreeOptions                                                             *)
(***************************************************************************)
\* _opt_defaults: the set of options available, and their default values
OptDefaults ==
    [horiz_spacing |-> "TEXT", vert_align |-> "CENTER", leaf_padding |-> 2,
     distance_to_daughter |-> 2, debug |-> FALSE, leaf_edges |-> TRUE,
     leaf_nodes_align |-> FALSE, font_style |-> "SERIF",
     average_glyph_width |-> 2, descend_direct |-> TRUE,
     relative_units |-> FALSE, font_size |-> 16, text_color |-> "",
     text_stroke |-> "", tree_split |-> "None"]

OptKeys == DOMAIN OptDefaults

\* TreeOptions(**opts) raises TypeError on an unknown key
TreeOptionsRaises(opts) == \E k \in DOMAIN opts : k \notin OptKeys

\* TreeOptions(**opts): every key has a value; the constructor's keys are explicit
TreeOptions(opts) ==
    [val |-> [k \in OptKeys |-> IF k \in DOMAIN opts THEN opts[k] ELSE OptDefaults[k]],
     explicit |-> DOMAIN opts]

\* o[k] = v
SetItem(o, k, v) == [val |-> [o.val EXCEPT ![k] = v], explicit |-> o.explicit \cup {k}]

\* o.k = v (plain attribute assignment: not recorded as explicit)
SetAttr(o, k, v) == [o EXCEPT !.val[k] = v]

\* del o[k]: resets to the default
DelItem(o, k) == [val |-> [o.val EXCEPT ![k] = OptDefaults[k]], explicit |-> o.explicit \ {k}]

\* self.update_explicit(other): for k in other.explicit: self[k] = other[k]
update_explicit(self, other) ==
    [val |-> [k \in OptKeys |-> IF k \in other.explicit THEN other.val[k] ELSE self.val[k]],
     explicit |-> self.explicit \cup other.explicit]

\* o.copy()
copy(o) == update_explicit(TreeOptions(<<>>), o)

\* o.update(**opts) (MutableMapping.update: self[k] = v for each keyword)
update(o, opts) ==
    [val |-> [k \in OptKeys |-> IF k \in DOMAIN opts THEN opts[k] ELSE o.val[k]],
     explicit |-> o.explicit \cup DOMAIN opts]

\* o.label_width(label), n = len(str(label))
label_width(o, n) == R(n + o.val.leaf_padding, o.val.average_glyph_width)

(***************************************************************************)
(* Tree values and the tree adapter                                        *)
(*                                                                         *)
(*   [kind |-> "str", text |-> lines]         a str                        *)
(*   [kind |-> "obj", text |-> lines]         a non-sequence object, text  *)
(*                                            is its str() form            *)
(*   [kind |-> "seq", items |-> <<...>>]      a list or tuple              *)
(*   [kind |-> "nltk", label |-> v, items |-> <<...>>]                     *)
(*                                            an nltk.Tree: label() and a  *)
(*                                            list of children (it         *)
(*                                            subclasses list)             *)
(*   [kind |-> "labelled", label |-> v]       has label(), not iterable    *)
(*   [kind |-> "element"]                     an ElementTree.Element       *)
(*   [kind |-> "deferred", arg |-> v, outer |-> options or None]           *)
(*                                            a DeferredNodePos wrapping   *)
(*                                            multiline_node(arg, options) *)
(*   [kind |-> "nodepos", id |-> k]           a NodePos object, whose      *)
(*                                            fields live in the heap      *)
(***************************************************************************)
Str(lines) == [kind |-> "str", text |-> lines]
EmptyStr == Str(<<>>)
SeqVal(items) == [kind |-> "seq", items |-> items]

\* a value split into None or a (label, children) pair
Pair(l, c) == [kind |-> "pair", label |-> l, children |-> c]

IsSequence(t) == t.kind \in {"str", "seq", "nltk"}

\* treelet_split_nltk: (t.label(), list(t)), None on AttributeError / TypeError
treelet_split_nltk(t) ==
    IF t.kind = "nltk" THEN Pair(t.label, t.items) ELSE None

\* treelet_split_list
treelet_split_list(t) ==
    IF ~IsSequence(t) \/ t.kind = "str" THEN None
    ELSE IF Len(t.items) = 0 THEN Pair(EmptyStr, <<>>)
    ELSE Pair(t.items[1], Tail(t.items))

\* str(label) of a non-sequence label
StrOf(label) == Str(label.text)

\* NodePos.from_label raises ValueError for an ElementTree.Element
from_label_raises(label) == label.kind = "element"

\* from_label passing every label but a str on in its string form
from_label_stringify(label) ==
    IF label.kind \in {"nodepos", "deferred"} THEN label
    ELSE IF label.kind = "str" THEN [kind |-> "deferred", arg |-> label, outer |-> None]
    ELSE [kind |-> "deferred", outer |-> None,
          arg |-> Str(IF "text" \in DOMAIN label THEN label.text ELSE <<5>>)]

\* NodePos.from_label; node(x) is a DeferredNodePos around multiline_node(x)
from_label(label) ==
    IF label.kind \in {"nodepos", "deferred"} THEN label
    ELSE IF IsSequence(label) THEN [kind |-> "deferred", arg |-> label, outer |-> None]
    ELSE [kind |-> "deferred", arg |-> StrOf(label), outer |-> None]

\* tree_split_raw with general sequence handling ordered before nltk
tree_split_raw_list_first(t) ==
    IF treelet_split_list(t) # None THEN treelet_split_list(t)
    ELSE IF treelet_split_nltk(t) # None THEN treelet_split_nltk(t)
    ELSE Pair(t, <<>>)

\* the chain of tree_split, before node_fun is applied
tree_split_raw(t) ==
    IF treelet_split_nltk(t) # None THEN treelet_split_nltk(t)
    ELSE IF treelet_split_list(t) # None THEN treelet_split_list(t)
    ELSE Pair(t, <<>>)

\* the module-level tree_split with node_fun the identity
tree_split(t) == tree_split_raw(t)

\* TreeOptions._base_tree_split: tree_split(t, node_fun=NodePos.from_label);
\* [kind |-> "raise", exc |-> ...] when node_fun raises
_base_tree_split(t) ==
    LET s == tree_split_raw(t)
    IN  IF from_label_raises(s.label) THEN [kind |-> "raise", exc |-> "ValueError"]
        ELSE Pair(from_label(s.label), s.children)

(***************************************************************************)
(* Custom tree_split functions (the tree_split option).  "None" is no      *)
(* custom function.  "last_is_label" handles lists and tuples of at least  *)
(* two elements, taking the last element as the label and the others as    *)
(* the children, and returns None for everything else.  "leaf_only"        *)
(* handles str values only, as leaves.                                     *)
(***************************************************************************)
CustomSplits == {"last_is_label", "leaf_only"}

custom_tree_split(name, t) ==
    CASE name = "last_is_label" ->
            IF t.kind = "seq" /\ Len(t.items) >= 2
            THEN Pair(t.items[Len(t.items)], SubSeq(t.items, 1, Len(t.items) - 1))
            ELSE None
      [] name = "leaf_only" ->
            IF t.kind = "str" THEN Pair(t, <<>>) ELSE None
      [] OTHER -> None

\* TreeOptions.split
split(o, t) ==
    IF o.val.tree_split # "None" /\ custom_tree_split(o.val.tree_split, t) # None
    THEN LET r == custom_tree_split(o.val.tree_split, t)
         IN  _base_tree_split(SeqVal(<<r.label>> \o r.children))
    ELSE _base_tree_split(t)

(***************************************************************************)
(* Tree utility functions                                                  *)
(***************************************************************************)
\* tree_cdr(t, split=o.split)
tree_cdr(o, t) == split(o, t).children

\* is_leaf(t, split=o.split)
is_leaf(o, t) == Len(tree_cdr(o, t)) = 0

RECURSIVE tree_depth(_, _)
\* tree_depth(t, split=o.split)
tree_depth(o, t) ==
    LET children == tree_cdr(o, t)
        sub == Tup([i \in 1..Len(children) |-> tree_depth(o, children[i])])
    IN  IntMaxSeq(<<0>> \o sub) + 1

\* common_parent(path1, path2): the longest common prefix
common_parent(path1, path2) ==
    LET n == Min2(Len(path1), Len(path2))
        diff == {i \in 1..n : path1[i] # path2[i]}
    IN  IF diff # {}
        THEN SubSeq(path1, 1, (CHOOSE i \in diff : \A j \in diff : i <= j) - 1)
        ELSE IF Len(path1) < Len(path2) THEN path1 ELSE path2

(***************************************************************************)
(* NodePos                                                                 *)
(***************************************************************************)
\* NodePos.descender_margin, NodePos.annotation_margin (ems)
descender_margin == <<1, 4>>
annotation_margin == <<1, 4>>

\* NodePos.reset_calcs
reset_calcs(n) ==
    [n EXCEPT !.width = n.orig_width, !.inner_width = n.orig_width,
              !.height = n.orig_height, !.inner_height = n.orig_height]

\* NodePos with the least width half an em
NodePos_half_em(x, y, width, height, options, text, id) ==
    reset_calcs(
      [x |-> x, y |-> y,
       orig_width |-> RMax(width, <<1, 2>>),
       orig_height |-> height,
       width |-> RInt(0), inner_width |-> RInt(0),
       height |-> RInt(0), inner_height |-> RInt(0),
       depth |-> 0, text |-> text,
       options |-> IF options = None THEN TreeOptions(<<>>) ELSE copy(options),
       edge_styles |-> <<>>, id |-> id])

\* NodePos(svg, x, y, width, height, options, depth=0, text); id is the
\* identity of a NodePos object owned by the tree (0: made by this layout)
NodePos(x, y, width, height, options, text, id) ==
    reset_calcs(
      [x |-> x, y |-> y,
       orig_width |-> RMax(width, RInt(1)),   \* avoid divide by 0 errors
       orig_height |-> height,
       width |-> RInt(0), inner_width |-> RInt(0),
       height |-> RInt(0), inner_height |-> RInt(0),
       depth |-> 0, text |-> text,
       options |-> IF options = None THEN TreeOptions(<<>>) ELSE copy(options),
       edge_styles |-> <<>>, id |-> id])

\* multiline_node raises TypeError when text is not a str
multiline_node_raises(text) == text.kind # "str"

\* the body of multiline_node(text, options=options), line_margin = 0.0
multiline_node(text, options) ==
    LET opts == IF options = None THEN TreeOptions(<<>>) ELSE options
        lines == text.text
        height == RInt(Len(lines))
        width == IF Len(lines) > 0
                 THEN RMaxSeq(Tup([i \in 1..Len(lines) |-> label_width(opts, lines[i])]))
                 ELSE label_width(opts, 0)
    IN  NodePos(RInt(50), RInt(0), width, height, opts, lines, 0)

\* DeferredNodePos.__call__: the options handed to the node builder
DeferredOptions(n, options) ==
    IF n.outer # None
    THEN IF options = None THEN copy(n.outer)
         ELSE update_explicit(copy(options), n.outer)
    ELSE options

\* NodePos.in_context raises what the node builder raises
in_context_raises(n) == n.kind = "deferred" /\ multiline_node_raises(n.arg)

\* in_context that leaves the derived sizes of a NodePos as they are
in_context_no_reset(n, depth, options, heap) ==
    LET result == IF n.kind = "nodepos" THEN heap[n.id]
                  ELSE multiline_node(n.arg, DeferredOptions(n, options))
    IN  [result EXCEPT !.depth = depth]

\* NodePos.in_context(n, depth, options); n is what from_label returned
in_context(n, depth, options, heap) ==
    LET result == IF n.kind = "nodepos" THEN reset_calcs(heap[n.id])
                  ELSE multiline_node(n.arg, DeferredOptions(n, options))
    IN  [result EXCEPT !.depth = depth]

(***************************************************************************)
(* TreeLayout: the layout passes.  A layout is [node |-> NodePos,          *)
(* kids |-> <<layouts>>] for the list [node] + result_children.            *)
(***************************************************************************)
RECURSIVE node_seq(_)
\* every node of a layout, depth-first, left to right
node_seq(t) ==
    <<t.node>> \o Flatten(Tup([i \in 1..Len(t.kids) |-> node_seq(t.kids[i])]))

\* node.x * a / b
Scale(x, a, b) == RDiv(RMul(x, RInt(a)), RInt(b))

\* node_level without leaf_nodes_align: always the structural level
node_level_structural(self_options, self_depth, children, level) == level

\* _build_initial_layout, the level of the node: with leaf_nodes_align a leaf
\* is put at the deepest level of the tree
node_level(self_options, self_depth, children, level) ==
    IF Len(children) = 0 /\ self_options.val.leaf_nodes_align
    THEN self_depth ELSE level

\* _build_initial_layout, after in_context: the node's height in the ems of
\* the tree's font size
scaled_height(self_options, node) ==
    [node EXCEPT !.height =
        Scale(node.height, node.options.val.font_size, self_options.val.font_size)]

\* initial_width that takes the width of the label only
initial_width_label(self_options, node, result_children) ==
    [node |-> [node EXCEPT !.width =
                  Scale(node.width, node.options.val.font_size,
                        self_options.val.font_size)],
     kids |-> result_children]

\* _build_initial_layout, its end: the node is as wide as its label (in the
\* ems of the tree's font size) or as its children together
initial_width(self_options, node, result_children) ==
    [node |-> [node EXCEPT !.width =
                  RMax(Scale(node.width, node.options.val.font_size,
                             self_options.val.font_size),
                       RSum(Tup([i \in 1..Len(result_children) |->
                                    result_children[i].node.width])))],
     kids |-> result_children]

RECURSIVE _build_initial_layout(_, _, _, _, _, _)
RECURSIVE build_split(_, _, _, _, _, _)
\* _build_initial_layout once the tree is split into s = (label, children),
\* lvl the level of the node
build_split(self_options, self_depth, heap, s, old_layout, lvl) ==
    initial_width(self_options,
        scaled_height(self_options,
            in_context(s.label, lvl,
                       IF old_layout # None THEN old_layout.node.options
                       ELSE self_options,
                       heap)),
        Tup([i \in 1..Len(s.children) |->
                _build_initial_layout(self_options, self_depth, heap, s.children[i],
                    IF old_layout # None THEN old_layout.kids[i] ELSE None, lvl + 1)]))

\* TreeLayout._build_initial_layout(t, old_layout, level), with self.options,
\* self.depth; the level_heights it accumulates are computed by LevelHeights
_build_initial_layout(self_options, self_depth, heap, t, old_layout, level) ==
    build_split(self_options, self_depth, heap, split(self_options, t), old_layout,
                node_level(self_options, self_depth,
                           split(self_options, t).children, level))

\* self.level_heights after _build_initial_layout: 0 for every level, raised
\* to the height of every node built at that level
LevelHeights(parsed, self_depth) ==
    LET ns == node_seq(parsed)
    IN  [l \in 0..self_depth |->
            RMaxSeq(<<RInt(0)>> \o
                    Tup([i \in 1..Len(ns) |-> IF ns[i].depth = l THEN ns[i].height ELSE RInt(0)]))]

\* TreeLayout._calc_level_ys
_calc_level_ys(self_options, level_heights, self_depth) ==
    [i \in 0..self_depth |->
        IF i = 0 THEN RInt(0)
        ELSE RAdd(RInt(self_options.val.distance_to_daughter), level_heights[i - 1])]

RECURSIVE leaf_nodecount(_, _)
\* leaf_nodecount(t, options) on a layout t
leaf_nodecount(t, options) ==
    IF Len(t.kids) = 0 THEN 1 + options.val.leaf_padding
    ELSE LET sub == Tup([i \in 1..Len(t.kids) |-> RInt(leaf_nodecount(t.kids[i], options))])
         IN  RSum(sub)[1]

\* _sublayout_width without the spacing modes: always the em width
_sublayout_width_text(t) == t.node.width

\* TreeLayout._sublayout_width
_sublayout_width(t) ==
    IF t.node.options.val.horiz_spacing = "TEXT" THEN t.node.width
    ELSE IF t.node.options.val.horiz_spacing = "NODES"
         THEN RInt(leaf_nodecount(t, t.node.options))
    ELSE RInt(1)

\* em_sum without the parent's label: the em widths of the children only
em_sum_children(children, parent) ==
    RSum(Tup([i \in 1..Len(children) |-> children[i].node.width]))

\* _normalize_widths: the em width the children's inner widths are taken of
em_sum(children, parent) ==
    RMax(RSum(Tup([i \in 1..Len(children) |-> children[i].node.width])),
         parent.inner_width)

\* _normalize_widths: every share of the widths, as a percentage of their sum
new_widths(widths, sub_sum) ==
    Tup([i \in 1..Len(widths) |-> RDiv(RMul(widths[i], RInt(100)), sub_sum)])

\* place_children with x_pos advanced before it is stored
place_children_late_x(t, children, new_width, sum) ==
    [t EXCEPT !.kids =
        Tup([i \in 1..Len(children) |->
            [children[i] EXCEPT
                !.node.inner_width =
                    RDiv(RMul(children[i].node.inner_width, RInt(100)), sum),
                !.node.width = new_width[i],
                !.node.x = RSum(SubSeq(new_width, 1, i))]])]

\* _normalize_widths, its loop over the children: inner widths in percent of
\* em_sum, widths new_width, each x the sum of the widths before it
place_children(t, children, new_width, sum) ==
    [t EXCEPT !.kids =
        Tup([i \in 1..Len(children) |->
            [children[i] EXCEPT
                !.node.inner_width =
                    RDiv(RMul(children[i].node.inner_width, RInt(100)), sum),
                !.node.width = new_width[i],
                !.node.x = RSum(SubSeq(new_width, 1, i - 1))]])]

\* _normalize_widths once the children are normalized, widths their
\* _sublayout_width
normalize_children(t, children, widths) ==
    place_children(t, children, new_widths(widths, RSum(widths)),
                   em_sum(children, t.node))

\* the _sublayout_width of every child
sublayout_widths(children) ==
    Tup([i \in 1..Len(children) |-> _sublayout_width(children[i])])

RECURSIVE _normalize_widths(_)
RECURSIVE normalize_below(_, _)
\* _normalize_widths of a parent whose children are normalized
normalize_below(t, children) ==
    normalize_children(t, children, sublayout_widths(children))

\* TreeLayout._normalize_widths: recurse first, so that parent widths are
\* still in ems
_normalize_widths(t) ==
    IF Len(t.kids) = 0 THEN t
    ELSE normalize_below(t, Tup([i \in 1..Len(t.kids) |-> _normalize_widths(t.kids[i])]))

\* label_y_dodge that puts the whole slack of a centred label above it
label_y_dodge_slack_above(self_options, level_heights, level, height) ==
    IF self_options.val.vert_align = "TOP"
    THEN <<RInt(0), RSub(level_heights[level], height)>>
    ELSE IF self_options.val.vert_align \in {"BOTTOM", "CENTER"}
    THEN <<RSub(level_heights[level], height), RInt(0)>>
    ELSE <<RInt(0), RInt(0)>>

\* TreeLayout.label_y_dodge(node=None, level=level, height=height)
label_y_dodge(self_options, level_heights, level, height) ==
    IF self_options.val.vert_align = "TOP"
    THEN <<RInt(0), RSub(level_heights[level], height)>>
    ELSE IF self_options.val.vert_align = "BOTTOM"
    THEN <<RSub(level_heights[level], height), RInt(0)>>
    ELSE IF self_options.val.vert_align = "CENTER"
    THEN LET dodge == RDiv(RSub(level_heights[level], height), RInt(2))
         IN  <<dodge, dodge>>
    ELSE <<RInt(0), RInt(0)>>

RECURSIVE _normalize_y(_, _, _)
\* TreeLayout._normalize_y
_normalize_y(self_options, level_heights, t) ==
    LET p1 == IF self_options.val.vert_align = "FULL"
              THEN [t.node EXCEPT !.height = level_heights[t.node.depth]]
              ELSE t.node
        parent == [p1 EXCEPT !.y =
                      label_y_dodge(self_options, level_heights, p1.depth, p1.height)[1]]
    IN  [node |-> parent,
         kids |-> Tup([i \in 1..Len(t.kids) |->
                      _normalize_y(self_options, level_heights, t.kids[i])])]

\* laid_out with max_width read after the root's width is set to 100
laid_out_late_max(self_options, d, parsed, lh) ==
    [depth |-> d,
     level_heights |-> lh,
     level_ys |-> _calc_level_ys(self_options, lh, d),
     max_width |-> RInt(100),
     layout |-> _normalize_y(self_options, lh,
                    _normalize_widths([parsed EXCEPT !.node.width = RInt(100),
                                                     !.node.x = RInt(0)]))]

\* _do_layout after the first pass: the root takes the whole width, then
\* _normalize_widths and _normalize_y
laid_out(self_options, d, parsed, lh) ==
    [depth |-> d,
     level_heights |-> lh,
     level_ys |-> _calc_level_ys(self_options, lh, d),
     max_width |-> parsed.node.width,
     layout |-> _normalize_y(self_options, lh,
                    _normalize_widths([parsed EXCEPT !.node.width = RInt(100),
                                                     !.node.x = RInt(0)]))]

\* _do_layout with parsed the result of _build_initial_layout
do_layout_parsed(self_options, d, parsed) ==
    laid_out(self_options, d, parsed, LevelHeights(parsed, d))

\* _do_layout with self.depth = d
do_layout_depth(self_options, d, heap, t, old_layout) ==
    do_layout_parsed(self_options, d,
        _build_initial_layout(self_options, d, heap, t, old_layout, 0))

\* TreeLayout._do_layout(t): the fields it assigns
_do_layout(self_options, heap, t, old_layout) ==
    do_layout_depth(self_options, tree_depth(self_options, t) - 1, heap, t, old_layout)

\* NodePos objects owned by the tree are the very objects of the layout: the
\* heap after a layout pass holds what the pass wrote to them
StoreNodes(heap, t) ==
    LET ns == node_seq(t)
    IN  [id \in DOMAIN heap |->
            IF \E i \in 1..Len(ns) : ns[i].id = id
            THEN ns[CHOOSE i \in 1..Len(ns) : ns[i].id = id]
            ELSE heap[id]]

RECURSIVE LoadNodes(_, _)
\* a layout as seen after its tree-owned NodePos objects were written to
LoadNodes(heap, t) ==
    [node |-> IF t.node.id # 0 THEN heap[t.node.id] ELSE t.node,
     kids |-> Tup([i \in 1..Len(t.kids) |-> LoadNodes(heap, t.kids[i])])]

(***************************************************************************)
(* TreeLayout: path addressing.  A path is a sequence of Python daughter   *)
(* indices (0 is the first daughter, -1 the last).                         *)
(***************************************************************************)
\* an indexing that clamps an index out of range to the nearest child
list_index_clamped(n, c) ==
    IF n = 0 THEN -1
    ELSE IF c >= n THEN n - 1
    ELSE IF c < -n THEN 0
    ELSE IF c < 0 THEN c + n ELSE c

\* an indexing that takes a negative index modulo the number of children
list_index_mod(n, c) ==
    IF c >= n \/ n = 0 THEN -1
    ELSE c % n

\* children[c] on a Python list of n children: the position (from 0) it
\* addresses, or -1 for IndexError
list_index(n, c) ==
    IF c >= n \/ c < -n THEN -1
    ELSE IF c < 0 THEN c + n ELSE c

RECURSIVE layout_iter_from(_, _, _)
\* TreeLayout.layout_iter from position i (from 0) of the path: the layouts
\* it yields and the AttributeError that ends it, if any
layout_iter_from(node, path, i) ==
    IF i >= Len(path) THEN [items |-> <<node>>, exc |-> None]
    ELSE LET c == path[i + 1]
             k == list_index(Len(node.kids), c)
         IN  IF k = -1
             THEN [items |-> <<node>>,
                   exc |-> [kind |-> "AttributeError", what |-> "Invalid tree path",
                            index |-> i, daughter |-> c]]
             ELSE LET rest == layout_iter_from(node.kids[k + 1], path, i + 1)
                  IN  [items |-> <<node>> \o rest.items, exc |-> rest.exc]

\* TreeLayout.layout_iter(path)
layout_iter(self_layout, path) == layout_iter_from(self_layout, path, 0)

\* what list(self.layout_iter(path)) raises, or None
path_error(self_layout, path) == layout_iter(self_layout, path).exc

\* TreeLayout.sublayout(path), for a path that raises nothing
sublayout(self_layout, path) ==
    LET it == layout_iter(self_layout, path).items IN it[Len(it)]

\* TreeLayout.node_iter(path)
node_iter(self_layout, path) ==
    LET it == layout_iter(self_layout, path).items
    IN  Tup([i \in 1..Len(it) |-> it[i].node])

RECURSIVE subtree_iter_df(_)
subtree_iter_df(pos) ==
    <<pos>> \o Flatten(Tup([i \in 1..Len(pos.kids) |-> subtree_iter_df(pos.kids[i])]))

\* TreeLayout.subtree_iter(path): every layout position, depth first
subtree_iter(self_layout, path) == subtree_iter_df(sublayout(self_layout, path))

RECURSIVE leaf_iter(_)
\* TreeLayout.leaf_iter(t) on a layout t: its leaf nodes, left to right
leaf_iter(t) ==
    IF Len(t.kids) = 0 THEN <<t.node>>
    ELSE Flatten(Tup([i \in 1..Len(t.kids) |-> leaf_iter(t.kids[i])]))

RECURSIVE canonical(_, _)
\* the path with every index counted from 0: the identity of the node object
\* a valid path addresses
canonical(t, path) ==
    IF path = <<>> THEN <<>>
    ELSE LET k == list_index(Len(t.kids), Head(path))
         IN  <<k>> \o canonical(t.kids[k + 1], Tail(path))

RECURSIVE leaf_ids(_, _)
\* the leaf node objects under t (at canonical path prefix), left to right,
\* each named by its canonical path
leaf_ids(t, prefix) ==
    IF Len(t.kids) = 0 THEN <<prefix>>
    ELSE Flatten(Tup([i \in 1..Len(t.kids) |-> leaf_ids(t.kids[i], Append(prefix, i - 1))]))

RECURSIVE nmost_path(_, _, _)
\* TreeLayout.nmost_path(path, n): daughter n repeatedly until IndexError
nmost_path(self_layout, path, n) ==
    LET t == sublayout(self_layout, path)
    IN  IF list_index(Len(t.kids), n) = -1 THEN path
        ELSE nmost_path(self_layout, Append(path, n), n)

leftmost_path(self_layout, path) == nmost_path(self_layout, path, 0)
\* a rightmost path that goes to the first daughter instead of the last
rightmost_path_first(self_layout, path) == nmost_path(self_layout, path, 0)
rightmost_path(self_layout, path) == nmost_path(self_layout, path, -1)

RECURSIVE node_x_vals_from(_, _, _, _)
node_x_vals_from(nodes, i, left, width) ==
    IF i > Len(nodes) THEN <<left, width>>
    ELSE node_x_vals_from(nodes, i + 1,
            RAdd(left, RDiv(RMul(nodes[i].x, width), RInt(100))),
            RDiv(RMul(width, nodes[i].width), RInt(100)))

\* TreeLayout.node_x_vals(path): (left, width) in percent of the outer svg
node_x_vals(self_layout, path) ==
    node_x_vals_from(node_iter(self_layout, path), 1, RInt(0), RInt(100))

\* TreeLayout.y_distance(level_a, level_b)
y_distance(level_ys, self_depth, level_a, level_b) ==
    LET b == Min2(self_depth, level_b)
    IN  RSum(Tup([i \in 1..(b - level_a) |-> level_ys[level_a + i]]))

\* TreeLayout.em_height()
em_height(level_ys, level_heights, self_depth, self_extra_y) ==
    RAdd(RAdd(RSum(Tup([i \in 1..(self_depth + 1) |-> level_ys[i - 1]])),
              level_heights[self_depth]),
         self_extra_y)

\* TreeOptions.em_to_px
em_to_px(o, n) == RMul(n, RInt(o.val.font_size))

\* the fields of a TreeLayout the geometry queries read
Self(o, lay, lh, lys, d, mw, ey) ==
    [options |-> o, layout |-> lay, level_heights |-> lh, level_ys |-> lys,
     depth |-> d, max_width |-> mw, extra_y |-> ey]

\* the deepest level of the leaves under a layout position
deepest_leaf(parent) ==
    IntMaxSeq(Tup([i \in 1..Len(leaf_iter(parent)) |-> leaf_iter(parent)[i].depth]))

\* subtree_bounds: the box from x to the right edge rv = (left, width), from
\* the top of level `top` to the bottom of level `deepest`
bounds_box(self, x, rv, top, deepest) ==
    <<x,
      y_distance(self.level_ys, self.depth, 0, top),
      RSub(RAdd(rv[1], rv[2]), x),
      RAdd(RAdd(RAdd(y_distance(self.level_ys, self.depth, top, deepest),
                     self.level_heights[deepest]),
                descender_margin), annotation_margin)>>

\* TreeLayout.subtree_bounds(path): (x, y, width, height), path valid
subtree_bounds(self, path) ==
    bounds_box(self,
               node_x_vals(self.layout, leftmost_path(self.layout, path))[1],
               node_x_vals(self.layout, rightmost_path(self.layout, path)),
               sublayout(self.layout, path).node.depth,
               deepest_leaf(sublayout(self.layout, path)))

\* subtree_bounds_user: the bounds b in user units, tree_width the width of
\* the tree in px
bounds_user(self, b, tree_width) ==
    <<RDiv(RMul(b[1], tree_width), RInt(100)),
      em_to_px(self.options, b[2]),
      RDiv(RMul(b[3], tree_width), RInt(100)),
      em_to_px(self.options, b[4])>>

\* TreeLayout.subtree_bounds_user(path): in user units
subtree_bounds_user(self, path) ==
    bounds_user(self, subtree_bounds(self, path),
                em_to_px(self.options, self.max_width))

\* Python's s[left:right] on a sequence (positions from 0, clamped)
Slice(s, left, right) ==
    SubSeq(s, left + 1, Min2(right, Len(s)))

\* the last i (from 0) with s[i] = x, as the loop of leaf_span_iter leaves it
LastIndexOf(s, x) ==
    (CHOOSE i \in 1..Len(s) : s[i] = x /\ \A j \in 1..Len(s) : s[j] = x => j <= i) - 1

\* TreeLayout.leaf_span_iter(path1, path2): the leaves it yields, each named
\* by its canonical path
leaf_span_iter(self_layout, path1, path2) ==
    LET branch == common_parent(path1, path2)
        constituent_leaves ==
            leaf_ids(sublayout(self_layout, branch), canonical(self_layout, branch))
        path1_leaves ==
            leaf_ids(sublayout(self_layout, path1), canonical(self_layout, path1))
        path2_leaves ==
            leaf_ids(sublayout(self_layout, path2), canonical(self_layout, path2))
        path1_i == LastIndexOf(constituent_leaves, path1_leaves[1])
        path2_i == LastIndexOf(constituent_leaves, path2_leaves[1])
        left == IF path1_i < path2_i THEN path1_i ELSE path2_i
        right == IF path1_i < path2_i THEN path2_i + Len(path2_leaves)
                 ELSE path1_i + Len(path1_leaves)
    IN  Slice(constituent_leaves, left, right)

\* TreeLayout.deepest_intervening_leaf
deepest_intervening_leaf(self_layout, path1, path2) ==
    LET span == leaf_span_iter(self_layout, path1, path2)
    IN  IntMaxSeq(Tup([i \in 1..Len(span) |-> sublayout(self_layout, span[i]).node.depth]))

RECURSIVE _movement_find_y(_, _, _, _)
\* TreeLayout._movement_find_y(x1, x2, y): the y it returns; it also appends
\* <<x1, x2, y>> to self._movement_arrows
_movement_find_y(arrows, x1, x2, y) ==
    IF \E i \in 1..Len(arrows) :
          arrows[i][3] = y /\ (RLt(x1, arrows[i][2]) \/ RLt(arrows[i][1], x2))
    THEN _movement_find_y(arrows, x1, x2, RAdd(y, <<1, 2>>))
    ELSE y

\* an arrow drawn without reserving room under the tree for its slot
arrow_drawn_no_room(self, arrows, self_annotations, n1_x, n1_y, n2_x, n2_y, y_target_base, y_target) ==
    [_movement_arrows |-> Append(arrows, <<RMin(n1_x, n2_x), RMax(n1_x, n2_x), y_target>>),
     extra_y |-> self.extra_y,
     annotations |-> self_annotations \o
        <<[shape |-> "Polyline",
           points |-> <<<<n1_x, n1_y>>,
                        <<n1_x, em_to_px(self.options, y_target)>>,
                        <<n2_x, em_to_px(self.options, y_target)>>,
                        <<n2_x, n2_y>>>>]>>,
     y_target |-> y_target,
     y_target_base |-> y_target_base]

\* movement_arrow: the arrow drawn from (n1_x, n1_y) down to the slot at
\* y_target and up to (n2_x, n2_y); what the call leaves in
\* self._movement_arrows, self.extra_y and self.annotations
arrow_drawn(self, arrows, self_annotations, n1_x, n1_y, n2_x, n2_y, y_target_base, y_target) ==
    [_movement_arrows |-> Append(arrows, <<RMin(n1_x, n2_x), RMax(n1_x, n2_x), y_target>>),
     extra_y |-> RMax(self.extra_y, RAdd(RSub(y_target, y_target_base), <<1, 2>>)),
     annotations |-> self_annotations \o
        <<[shape |-> "Polyline",
           points |-> <<<<n1_x, n1_y>>,
                        <<n1_x, em_to_px(self.options, y_target)>>,
                        <<n2_x, em_to_px(self.options, y_target)>>,
                        <<n2_x, RAdd(n2_y, em_to_px(self.options, <<9, 20>>))>>>>],
          [shape |-> "Polyline",
           points |-> <<<<RAdd(n2_x, RInt(3)),
                          RAdd(n2_y, em_to_px(self.options, <<9, 20>>))>>,
                        <<n2_x, n2_y>>,
                        <<RSub(n2_x, RInt(3)),
                          RAdd(n2_y, em_to_px(self.options, <<9, 20>>))>>>>]>>,
     y_target |-> y_target,
     y_target_base |-> y_target_base]

\* movement_arrow: the slot is looked for from 1.5 em under y_target_base
arrow_from(self, arrows, self_annotations, n1_x, n1_y, n2_x, n2_y, y_target_base) ==
    arrow_drawn(self, arrows, self_annotations, n1_x, n1_y, n2_x, n2_y, y_target_base,
        _movement_find_y(arrows, RMin(n1_x, n2_x), RMax(n1_x, n2_x),
                         RAdd(y_target_base, <<3, 2>>)))

\* movement_arrow: from the bottom centre of n1_pos to that of n2_pos, under
\* the leaves down to level y_depth
arrow_between(self, arrows, self_annotations, n1_pos, n2_pos, y_depth) ==
    arrow_from(self, arrows, self_annotations,
        RAdd(n1_pos[1], RDiv(n1_pos[3], RInt(2))), RAdd(n1_pos[2], n1_pos[4]),
        RAdd(n2_pos[1], RDiv(n2_pos[3], RInt(2))), RAdd(n2_pos[2], n2_pos[4]),
        RAdd(y_distance(self.level_ys, self.depth, 0, y_depth),
             self.level_heights[y_depth]))

\* TreeLayout.movement_arrow(path1, path2), both paths valid
movement_arrow(self, arrows, self_annotations, path1, path2) ==
    arrow_between(self, arrows, self_annotations,
        subtree_bounds_user(self, path1), subtree_bounds_user(self, path2),
        deepest_intervening_leaf(self.layout, path1, path2))

(***************************************************************************)
(* TreeLayout: the state of one layout object and the operations on it     *)
(***************************************************************************)
VARIABLES
    tree,              \* self.tree: the tree value handed to TreeLayout
    heap,              \* the NodePos objects the tree owns, by id
    caller_options,    \* the TreeOptions object the caller passed
    options,           \* self.options
    layout,            \* self.layout
    level_heights,     \* self.level_heights
    level_ys,          \* self.level_ys
    depth,             \* self.depth
    max_width,         \* self.max_width
    extra_y,           \* self.extra_y
    annotations,       \* self.annotations
    _movement_arrows,  \* self._movement_arrows (<<>> while not yet created)
    ret,               \* the last call: its name, arguments and outcome
    nops,              \* number of calls made so far
    calls,             \* the names of the calls made so far
    first,             \* the geometry the constructor computed
    other              \* the last TreeLayout built on self.tree besides this one

vars == <<tree, heap, caller_options, options, layout, level_heights, level_ys,
          depth, max_width, extra_y, annotations, _movement_arrows, ret, nops,
          calls, first, other>>

\* the fields _do_layout assigns
layout_vars == <<layout, level_heights, level_ys, depth, max_width>>

self == Self(options, layout, level_heights, level_ys, depth, max_width, extra_y)

\* x, width, y and depth of every node, depth first
Geometry(t) ==
    LET ns == node_seq(t)
    IN  Tup([i \in 1..Len(ns) |-> <<ns[i].x, ns[i].width, ns[i].y, ns[i].depth>>])

\* a call that returned normally / raised
Returned(op, args) == [op |-> op, args |-> args, exc |-> None]
Raised(op, args, exc) == [op |-> op, args |-> args, exc |-> exc]
TypeError == [kind |-> "TypeError"]

\* self._do_layout(self.tree), then what the caller sees
DoLayout(h, old_layout) ==
    \E r \in {_do_layout(options, h, tree, old_layout)} :
        /\ layout' = r.layout
        /\ level_heights' = r.level_heights
        /\ level_ys' = r.level_ys
        /\ depth' = r.depth
        /\ max_width' = r.max_width
        /\ heap' = StoreNodes(h, r.layout)

Called(op) == /\ nops' = nops + 1
              /\ calls' = calls \cup {op}

\* a call that raises before it changes anything
Fails(op, args, exc) ==
    /\ ret' = Raised(op, args, exc)
    /\ Called(op)
    /\ UNCHANGED <<tree, heap, caller_options, options, layout_vars, extra_y,
                   annotations, _movement_arrows, first, other>>

(***************************************************************************)
(* Annotations                                                             *)
(***************************************************************************)
\* TreeLayout.subtree_bounds(path), called by the user
SubtreeBounds(path) ==
    IF path_error(layout, path) # None
    THEN Fails("subtree_bounds", <<path>>, path_error(layout, path))
    ELSE /\ ret' = [op |-> "subtree_bounds", args |-> <<path>>, exc |-> None,
                    val |-> subtree_bounds(self, path)]
         /\ Called("subtree_bounds")
         /\ UNCHANGED <<tree, heap, caller_options, options, layout_vars, extra_y,
                        annotations, _movement_arrows, first, other>>

\* TreeLayout.box_constituent(path)
BoxConstituent(path) ==
    IF path_error(layout, path) # None
    THEN Fails("box_constituent", <<path>>, path_error(layout, path))
    ELSE \E b \in {subtree_bounds(self, path)} :
         LET rect == [shape |-> "Rect", insert |-> <<b[1], b[2]>>,
                      size |-> <<b[3], b[4]>>]
         IN  /\ annotations' = Append(annotations, rect)
             /\ ret' = Returned("box_constituent", <<path>>)
             /\ Called("box_constituent")
             /\ UNCHANGED <<tree, heap, caller_options, options, layout_vars,
                            extra_y, _movement_arrows, first, other>>

\* an underline that makes room by raising the height of the deepest row
\* of the constituent instead of extra_y
UnderlineConstituentGrowRow(path) ==
    IF path_error(layout, path) # None
    THEN Fails("underline_constituent", <<path>>, path_error(layout, path))
    ELSE \E b \in {subtree_bounds(self, path)} :
         LET bottom == RAdd(b[2], b[4])
             underline == [shape |-> "Line", start |-> <<b[1], bottom>>,
                           end |-> <<RAdd(b[1], b[3]), bottom>>]
             deepest == deepest_leaf(sublayout(layout, path))
         IN  /\ level_heights' = [level_heights EXCEPT ![deepest] = RAdd(@, <<1, 2>>)]
             /\ annotations' = Append(annotations, underline)
             /\ ret' = Returned("underline_constituent", <<path>>)
             /\ Called("underline_constituent")
             /\ UNCHANGED <<tree, heap, caller_options, options, layout, level_ys,
                            depth, max_width, extra_y, _movement_arrows, first, other>>

\* TreeLayout.underline_constituent(path)
UnderlineConstituent(path) ==
    IF path_error(layout, path) # None
    THEN Fails("underline_constituent", <<path>>, path_error(layout, path))
    ELSE \E b \in {subtree_bounds(self, path)} :
         LET bottom == RAdd(b[2], b[4])
             underline == [shape |-> "Line", start |-> <<b[1], bottom>>,
                           end |-> <<RAdd(b[1], b[3]), bottom>>]
             canvas == RSub(em_height(level_ys, level_heights, depth, extra_y), extra_y)
         IN  /\ extra_y' = RMax(extra_y, RSub(RAdd(bottom, <<1, 2>>), canvas))
             /\ annotations' = Append(annotations, underline)
             /\ ret' = Returned("underline_constituent", <<path>>)
             /\ Called("underline_constituent")
             /\ UNCHANGED <<tree, heap, caller_options, options, layout_vars,
                            _movement_arrows, first, other>>

\* a call of TreeLayout.movement_arrow(path1, path2)
MovementArrow(path1, path2) ==
    IF path_error(layout, path1) # None
    THEN Fails("movement_arrow", <<path1, path2>>, path_error(layout, path1))
    ELSE IF path_error(layout, path2) # None
    THEN Fails("movement_arrow", <<path1, path2>>, path_error(layout, path2))
    ELSE \E r \in {movement_arrow(self, _movement_arrows, annotations, path1, path2)} :
             /\ _movement_arrows' = r._movement_arrows
             /\ extra_y' = r.extra_y
             /\ annotations' = r.annotations
             /\ ret' = [op |-> "movement_arrow", args |-> <<path1, path2>>,
                        exc |-> None, val |-> <<r.y_target, r.y_target_base>>]
             /\ Called("movement_arrow")
             /\ UNCHANGED <<tree, heap, caller_options, options, layout_vars,
                            first, other>>

\* what leaf_span_iter(path1, path2) raises, or None: sublayout of the common
\* parent, of path1 and of path2, in that order
span_error(self_layout, path1, path2) ==
    IF path_error(self_layout, common_parent(path1, path2)) # None
    THEN path_error(self_layout, common_parent(path1, path2))
    ELSE IF path_error(self_layout, path1) # None THEN path_error(self_layout, path1)
    ELSE path_error(self_layout, path2)

\* list(self.leaf_span_iter(path1, path2)), called by the user
LeafSpanIter(path1, path2) ==
    IF span_error(layout, path1, path2) # None
    THEN Fails("leaf_span_iter", <<path1, path2>>, span_error(layout, path1, path2))
    ELSE /\ ret' = [op |-> "leaf_span_iter", args |-> <<path1, path2>>, exc |-> None,
                    val |-> leaf_span_iter(layout, path1, path2)]
         /\ Called("leaf_span_iter")
         /\ UNCHANGED <<tree, heap, caller_options, options, layout_vars, extra_y,
                        annotations, _movement_arrows, first, other>>

\* self.deepest_intervening_leaf(path1, path2), called by the user
DeepestInterveningLeaf(path1, path2) ==
    IF span_error(layout, path1, path2) # None
    THEN Fails("deepest_intervening_leaf", <<path1, path2>>,
               span_error(layout, path1, path2))
    ELSE /\ ret' = [op |-> "deepest_intervening_leaf", args |-> <<path1, path2>>,
                    exc |-> None,
                    val |-> deepest_intervening_leaf(layout, path1, path2)]
         /\ Called("deepest_intervening_leaf")
         /\ UNCHANGED <<tree, heap, caller_options, options, layout_vars, extra_y,
                        annotations, _movement_arrows, first, other>>

(***************************************************************************)
(* Style overrides, edge styles, relayout                                  *)
(***************************************************************************)
\* the keys set_subtree_style, set_leaf_style and set_node_style allow
allowed == {"debug", "font_style", "font_size", "text_color", "text_stroke"}

\* a check that rejects a call only when none of its keys is allowed
not_allowed_all(opts) ==
    /\ DOMAIN opts # {}
    /\ \A k \in DOMAIN opts : k \notin allowed

\* any(k not in allowed for k in opts.keys())
not_allowed(opts) == \E k \in DOMAIN opts : k \notin allowed

RECURSIVE update_node_shared(_, _, _)
\* an update of a node whose daughters share its options object
update_node_shared(t, path, opts) ==
    IF path = <<>>
    THEN [node |-> [t.node EXCEPT !.options = update(@, opts)],
          kids |-> Tup([i \in 1..Len(t.kids) |->
                          [t.kids[i] EXCEPT !.node.options = update(@, opts)]])]
    ELSE [t EXCEPT !.kids[Head(path) + 1] = update_node_shared(@, Tail(path), opts)]

RECURSIVE update_node(_, _, _)
\* self.sublayout(path)[0].options.update(**opts), path canonical
update_node(t, path, opts) ==
    IF path = <<>> THEN [t EXCEPT !.node.options = update(@, opts)]
    ELSE [t EXCEPT !.kids[Head(path) + 1] = update_node(@, Tail(path), opts)]

RECURSIVE update_all(_, _)
\* for pos in df(t): pos[0].options.update(**opts)
update_all(t, opts) ==
    [node |-> [t.node EXCEPT !.options = update(@, opts)],
     kids |-> Tup([i \in 1..Len(t.kids) |-> update_all(t.kids[i], opts)])]

RECURSIVE update_subtree(_, _, _)
\* for pos in self.subtree_iter(path): pos[0].options.update(**opts)
update_subtree(t, path, opts) ==
    IF path = <<>> THEN update_all(t, opts)
    ELSE [t EXCEPT !.kids[Head(path) + 1] = update_subtree(@, Tail(path), opts)]

RECURSIVE update_leaves(_, _)
\* for l in self.leaf_iter(self.layout): l.options.update(**opts)
update_leaves(t, opts) ==
    IF Len(t.kids) = 0 THEN [t EXCEPT !.node.options = update(@, opts)]
    ELSE [t EXCEPT !.kids = Tup([i \in 1..Len(t.kids) |-> update_leaves(t.kids[i], opts)])]

\* the rest of a style call once the nodes' options are updated:
\* self.relayout(); return self
Restyled(op, args, styled) ==
    /\ DoLayout(StoreNodes(heap, styled), styled)
    /\ annotations' = <<>>
    /\ ret' = Returned(op, args)
    /\ Called(op)
    /\ UNCHANGED <<tree, caller_options, options, extra_y, _movement_arrows,
                   first, other>>

\* TreeLayout.set_node_style(path, **opts)
SetNodeStyle(path, opts) ==
    IF not_allowed(opts)
    THEN Fails("set_node_style", <<path, opts>>, TypeError)
    ELSE IF path_error(layout, path) # None
    THEN Fails("set_node_style", <<path, opts>>, path_error(layout, path))
    ELSE Restyled("set_node_style", <<path, opts>>,
                  update_node(layout, canonical(layout, path), opts))

\* TreeLayout.set_subtree_style(path, **opts)
SetSubtreeStyle(path, opts) ==
    IF not_allowed(opts)
    THEN Fails("set_subtree_style", <<path, opts>>, TypeError)
    ELSE IF path_error(layout, path) # None
    THEN Fails("set_subtree_style", <<path, opts>>, path_error(layout, path))
    ELSE Restyled("set_subtree_style", <<path, opts>>,
                  update_subtree(layout, canonical(layout, path), opts))

\* TreeLayout.set_leaf_style(**opts)
SetLeafStyle(opts) ==
    IF not_allowed(opts)
    THEN Fails("set_leaf_style", <<opts>>, TypeError)
    ELSE Restyled("set_leaf_style", <<opts>>, update_leaves(layout, opts))

\* a relayout that gives up the room reserved for the annotations it drops
RelayoutResetExtraY ==
    /\ DoLayout(heap, layout)
    /\ annotations' = <<>>
    /\ extra_y' = <<1, 2>>
    /\ ret' = Returned("relayout", <<>>)
    /\ Called("relayout")
    /\ UNCHANGED <<tree, caller_options, options, _movement_arrows, first, other>>

\* TreeLayout.relayout()
Relayout ==
    /\ DoLayout(heap, layout)
    /\ annotations' = <<>>
    /\ ret' = Returned("relayout", <<>>)
    /\ Called("relayout")
    /\ UNCHANGED <<tree, caller_options, options, extra_y, _movement_arrows,
                   first, other>>

RECURSIVE edge_style_at(_, _, _, _)
\* self.sublayout(path)[0].set_edge_style(daughter, style), path canonical
edge_style_at(t, path, daughter, style) ==
    IF path = <<>>
    THEN [t EXCEPT !.node.edge_styles =
            [d \in DOMAIN @ \cup {daughter} |-> IF d = daughter THEN style ELSE @[d]]]
    ELSE [t EXCEPT !.kids[Head(path) + 1] = edge_style_at(@, Tail(path), daughter, style)]

\* TreeLayout.set_edge_style(path, style)
SetEdgeStyle(path, style) ==
    LET path_to_parent == SubSeq(path, 1, Len(path) - 1)
        daughter == path[Len(path)]
        unchanged == UNCHANGED <<tree, heap, caller_options, options, layout_vars,
                                 extra_y, annotations, _movement_arrows, first, other>>
    IN
    IF Len(path) = 0    \* there are no edges to the top node
    THEN /\ ret' = Returned("set_edge_style", <<path, style>>)
         /\ Called("set_edge_style")
         /\ unchanged
    ELSE IF path_error(layout, path_to_parent) # None
    THEN Fails("set_edge_style", <<path, style>>, path_error(layout, path_to_parent))
    ELSE LET children == sublayout(layout, path_to_parent).kids
         IN  IF daughter >= Len(children)
             THEN Fails("set_edge_style", <<path, style>>,
                        [kind |-> "AttributeError", what |-> "Invalid daughter index",
                         daughter |-> daughter])
             ELSE IF Len(children) = 0
             THEN Fails("set_edge_style", <<path, style>>,
                        [kind |-> "ZeroDivisionError"])
             ELSE \E styled \in {edge_style_at(layout,
                                    canonical(layout, path_to_parent),
                                    daughter % Len(children), style)} :
                      /\ layout' = styled
                      /\ heap' = StoreNodes(heap, styled)
                      /\ ret' = Returned("set_edge_style", <<path, style>>)
                      /\ Called("set_edge_style")
                      /\ UNCHANGED <<tree, caller_options, options, level_heights,
                                     level_ys, depth, max_width, extra_y, annotations,
                                     _movement_arrows, first, other>>

\* _svg_add_subtree, the edge drawn from parent to its child c at index i
\* (from 0): without leaf_edges a leaf gets an EmptyEdge, else the edge style
\* stored on the parent for i, else EdgeStyle or IndirectDescent by the
\* parent's descend_direct.  is_leaf(c) splits the layout list c with the
\* module's tree_split: c is a leaf when it has no sublayouts.
edge_for(self_options, parent, i, c) ==
    IF ~self_options.val.leaf_edges /\ Len(c.kids) = 0 THEN "EmptyEdge"
    ELSE IF i \in DOMAIN parent.edge_styles THEN parent.edge_styles[i]
    ELSE IF parent.options.val.descend_direct THEN "EdgeStyle"
    ELSE "IndirectDescent"

RECURSIVE _svg_add_subtree(_, _, _)
\* TreeLayout._svg_add_subtree(svg_parent, t), t at path `at`: the edges it
\* draws, in the order it draws them
_svg_add_subtree(self_options, t, at) ==
    Flatten(Tup([j \in 1..Len(t.kids) |->
        <<[parent |-> at, i |-> j - 1,
           edge |-> edge_for(self_options, t.node, j - 1, t.kids[j])]>>
        \o _svg_add_subtree(self_options, t.kids[j], Append(at, j - 1))]))

\* svg_build_tree, its end: tree.add(a) for every a in self.annotations; the
\* annotation shapes of the drawing, in the order they are added
svg_build_tree_shapes(self_annotations) == self_annotations

\* get_svg: tree.add(a) for every a in self.annotations, on the drawing that
\* svg_build_tree returned
get_svg_shapes(self_annotations) ==
    svg_build_tree_shapes(self_annotations) \o self_annotations

\* TreeLayout.svg_build_tree(): the edges and the annotation shapes of the
\* drawing
SvgBuildTree ==
    /\ ret' = [op |-> "svg_build_tree", args |-> <<>>, exc |-> None,
               val |-> _svg_add_subtree(options, layout, <<>>),
               shapes |-> svg_build_tree_shapes(annotations)]
    /\ Called("svg_build_tree")
    /\ UNCHANGED <<tree, heap, caller_options, options, layout_vars, extra_y,
                   annotations, _movement_arrows, first, other>>

\* TreeLayout.get_svg(): the drawing of svg_build_tree, then the annotations
GetSvg ==
    /\ ret' = [op |-> "get_svg", args |-> <<>>, exc |-> None,
               val |-> _svg_add_subtree(options, layout, <<>>),
               shapes |-> get_svg_shapes(annotations)]
    /\ Called("get_svg")
    /\ UNCHANGED <<tree, heap, caller_options, options, layout_vars, extra_y,
                   annotations, _movement_arrows, first, other>>

\* TreeLayout._repr_svg_(): self.get_svg().tostring()
ReprSvg ==
    /\ ret' = [op |-> "_repr_svg_", args |-> <<>>, exc |-> None,
               val |-> _svg_add_subtree(options, layout, <<>>),
               shapes |-> get_svg_shapes(annotations)]
    /\ Called("_repr_svg_")
    /\ UNCHANGED <<tree, heap, caller_options, options, layout_vars, extra_y,
                   annotations, _movement_arrows, first, other>>

\* TreeLayout(self.tree, options=TreeOptions(**kw)): another layout object on
\* the same tree.  Its passes write to the NodePos objects the tree owns,
\* which are nodes of this layout too.
Construct(kw) ==
    \E r \in {_do_layout(copy(TreeOptions(kw)), heap, tree, None)} :
        /\ heap' = StoreNodes(heap, r.layout)
        /\ layout' = LoadNodes(heap', layout)
        /\ other' = [kw |-> kw, geometry |-> Geometry(r.layout),
                     max_width |-> r.max_width]
        /\ ret' = Returned("TreeLayout", <<kw>>)
        /\ Called("TreeLayout")
        /\ UNCHANGED <<tree, caller_options, options, level_heights, level_ys,
                       depth, max_width, extra_y, annotations, _movement_arrows,
                       first>>

KeyError == [kind |-> "KeyError"]

\* o[k] = v on the caller's options object
OptionSetItem(k, v) ==
    IF k \notin OptKeys
    THEN Fails("__setitem__", <<k, v>>, KeyError)
    ELSE /\ caller_options' = SetItem(caller_options, k, v)
         /\ ret' = Returned("__setitem__", <<k, v>>)
         /\ Called("__setitem__")
         /\ UNCHANGED <<tree, heap, options, layout_vars, extra_y, annotations,
                        _movement_arrows, first, other>>

\* o.k = v on the caller's options object
OptionSetAttr(k, v) ==
    /\ caller_options' = SetAttr(caller_options, k, v)
    /\ ret' = Returned("__setattr__", <<k, v>>)
    /\ Called("__setattr__")
    /\ UNCHANGED <<tree, heap, options, layout_vars, extra_y, annotations,
                   _movement_arrows, first, other>>

\* del o[k] on the caller's options object
OptionDelItem(k) ==
    IF k \notin OptKeys
    THEN Fails("__delitem__", <<k>>, KeyError)
    ELSE /\ caller_options' = DelItem(caller_options, k)
         /\ ret' = Returned("__delitem__", <<k>>)
         /\ Called("__delitem__")
         /\ UNCHANGED <<tree, heap, options, layout_vars, extra_y, annotations,
                        _movement_arrows, first, other>>

\* o.copy() on the caller's options object
OptionCopy ==
    /\ ret' = [op |-> "copy", args |-> <<>>, exc |-> None, val |-> copy(caller_options)]
    /\ Called("copy")
    /\ UNCHANGED <<tree, heap, caller_options, options, layout_vars, extra_y,
                   annotations, _movement_arrows, first, other>>

\* TreeLayout(self.tree, options=o) with the caller's options object o; the
\* new layout is the one looked at from then on
TreeLayoutWith ==
    \E r \in {_do_layout(copy(caller_options), heap, tree, None)} :
        /\ options' = copy(caller_options)
        /\ layout' = r.layout
        /\ level_heights' = r.level_heights
        /\ level_ys' = r.level_ys
        /\ depth' = r.depth
        /\ max_width' = r.max_width
        /\ heap' = StoreNodes(heap, r.layout)
        /\ extra_y' = <<1, 2>>
        /\ annotations' = <<>>
        /\ _movement_arrows' = <<>>
        /\ ret' = Returned("TreeLayout", <<caller_options>>)
        /\ Called("TreeLayout")
        /\ UNCHANGED <<tree, caller_options, first, other>>

(***************************************************************************)
(* The tree adapter on its own: a caller splits the value in `tree` with   *)
(* options.split, finalizes the label with NodePos.in_context as           *)
(* _build_initial_layout does, and goes on with one of the children.       *)
(***************************************************************************)
\* self.options.split(tree)
Split ==
    /\ ret' = IF split(options, tree).kind = "raise"
              THEN Raised("split", <<tree>>, [kind |-> split(options, tree).exc])
              ELSE [op |-> "split", args |-> <<tree>>, exc |-> None,
                    val |-> split(options, tree)]
    /\ Called("split")
    /\ UNCHANGED <<tree, heap, caller_options, options, layout_vars, extra_y,
                   annotations, _movement_arrows, first, other>>

\* NodePos.in_context(parent, depth=0, options=self.options) on the label of
\* the pair the last split returned; a NodePos label is reset in place
Finalize ==
    /\ ret.op = "split" /\ ret.exc = None
    /\ IF in_context_raises(ret.val.label)
       THEN /\ ret' = Raised("in_context", <<ret.val.label>>, TypeError)
            /\ heap' = heap
       ELSE \E result \in {in_context(ret.val.label, 0, options, heap)} :
            /\ ret' = [op |-> "in_context", args |-> <<ret.val.label>>, exc |-> None,
                       val |-> result, children |-> ret.val.children]
            /\ heap' = IF ret.val.label.kind = "nodepos"
                       THEN [heap EXCEPT ![ret.val.label.id] = result]
                       ELSE heap
    /\ Called("in_context")
    /\ UNCHANGED <<tree, caller_options, options, layout_vars, extra_y,
                   annotations, _movement_arrows, first, other>>

\* the caller goes on with children[i] (i from 0)
Descend(i) ==
    /\ ret.op = "in_context" /\ ret.exc = None
    /\ i < Len(ret.children)
    /\ tree' = ret.children[i + 1]
    /\ ret' = Returned("child", <<i>>)
    /\ Called("child")
    /\ UNCHANGED <<heap, caller_options, options, layout_vars, extra_y,
                   annotations, _movement_arrows, first, other>>

(***************************************************************************)
(* html.DivTreeLayout: the renderer that lays a tree out as nested divs.   *)
(* An element is a record of kind "element"; a rendered one also carries   *)
(* the function that built it, its label, its daughters and the direction  *)
(* of its parent.                                                          *)
(***************************************************************************)
NotImplementedError == [kind |-> "NotImplementedError"]
IndexError == [kind |-> "IndexError"]

\* the keyword parameters of core.tree_split(t, node_fun=...)
TreeSplitParams == {"node_fun"}

\* a call core.tree_split(t, **kw) with the keyword names kws and the other
\* arguments left at their defaults: binding an unknown keyword is a TypeError
tree_split_kw(t, kws) ==
    IF kws \subseteq TreeSplitParams THEN tree_split(t)
    ELSE [kind |-> "raise", exc |-> TypeError]

\* html.tree_split passing only the keywords core.tree_split has
html_tree_split_no_fallback(t) ==
    IF t.kind = "element" THEN Pair(t, <<>>)
    ELSE tree_split_kw(t, {})

\* html.tree_split: an Element is a leaf, everything else goes to
\* svgling.core.tree_split(t, fallback=html_split_fallback)
html_tree_split(t) ==
    IF t.kind = "element" THEN Pair(t, <<>>)
    ELSE tree_split_kw(t, {"fallback"})

\* html.to_html: an Element as it is, everything else wrapped in a div
to_html(x) ==
    IF x.kind = "element" THEN x
    ELSE [kind |-> "element", by |-> "html_text_wrap", label |-> x,
          daughters |-> <<>>, parent_dir |-> None]

\* the layout_map of node_layout
layout_map(horiz_spacing) ==
    CASE horiz_spacing = "EVEN" ->
            <<"leaf_node_layout", "node_layout_unary_grid", "node_layout_binary_even">>
      [] horiz_spacing = "TEXT" ->
            <<"node_layout_unary_text", "node_layout_unary_text", "node_layout_binary_text">>
      [] horiz_spacing = "NODES" -> <<"err", "err", "err">>

\* DivTreeLayout.node_layout(label, *daughters, parent_dir=parent_dir)
node_layout(o, label, daughters, parent_dir) ==
    LET layout_fns == layout_map(o.val.horiz_spacing)
    IN  IF Len(daughters) > Len(layout_fns) - 1
        THEN [exc |-> IndexError, val |-> None]
        ELSE [exc |-> None,
              val |-> IF layout_fns[Len(daughters) + 1] = "leaf_node_layout"
                      THEN to_html(label)
                      ELSE [kind |-> "element", by |-> layout_fns[Len(daughters) + 1],
                            label |-> IF layout_fns[Len(daughters) + 1] = "err"
                                      THEN None ELSE to_html(label),
                            daughters |-> IF layout_fns[Len(daughters) + 1] = "err"
                                          THEN <<>> ELSE daughters,
                            parent_dir |-> parent_dir]]

RECURSIVE render_from(_, _, _)
\* DivTreeLayout.render(t, parent_dir) for t that is not None; the result is
\* [exc, val]
render_from(o, t, parent_dir) ==
    LET s == html_tree_split(t)
    IN  IF s.kind = "raise" THEN [exc |-> s.exc, val |-> None]
        ELSE IF Len(s.children) = 0 THEN node_layout(o, s.label, <<>>, parent_dir)
        ELSE IF Len(s.children) = 1
        THEN LET c == render_from(o, s.children[1], 0)
             IN  IF c.exc # None THEN c
                 ELSE node_layout(o, s.label, <<c.val>>, parent_dir)
        ELSE IF Len(s.children) = 2
        THEN LET c1 == render_from(o, s.children[1], 1)
             IN  IF c1.exc # None THEN c1
                 ELSE LET c2 == render_from(o, s.children[2], -1)
                      IN  IF c2.exc # None THEN c2
                          ELSE node_layout(o, s.label, <<c1.val, c2.val>>, parent_dir)
        ELSE [exc |-> NotImplementedError, val |-> None]

\* DivTreeLayout.render(): the tree of the layout, the style of the options
\* put on the outermost element
render(o, t) ==
    LET r == render_from(o, t, None)
    IN  IF r.exc # None THEN r
        ELSE [exc |-> None, val |-> [styled |-> TRUE, element |-> r.val]]

\* DivTreeLayout(t, options=options)
DivTreeLayout(t, kw) ==
    /\ tree = t
    /\ heap = <<>>
    /\ caller_options = TreeOptions(kw)
    /\ options = TreeOptions(kw)
    /\ layout = None
    /\ level_heights = <<>>
    /\ level_ys = <<>>
    /\ depth = 0
    /\ max_width = RInt(0)
    /\ extra_y = <<1, 2>>
    /\ annotations = <<>>
    /\ _movement_arrows = <<>>
    /\ ret = Returned("DivTreeLayout", <<kw>>)
    /\ nops = 0
    /\ calls = {}
    /\ first = None
    /\ other = None

\* self.render()
Render ==
    /\ ret' = [op |-> "render", args |-> <<>>, exc |-> render(options, tree).exc,
               val |-> render(options, tree).val]
    /\ Called("render")
    /\ UNCHANGED <<tree, heap, caller_options, options, layout_vars, extra_y,
                   annotations, _movement_arrows, first, other>>

\* self._repr_html_(): the rendered element as a string
ReprHtml ==
    /\ ret' = [op |-> "_repr_html_", args |-> <<>>, exc |-> render(options, tree).exc,
               val |-> IF render(options, tree).exc # None THEN None
                       ELSE [kind |-> "str", of |-> render(options, tree).val]]
    /\ Called("_repr_html_")
    /\ UNCHANGED <<tree, heap, caller_options, options, layout_vars, extra_y,
                   annotations, _movement_arrows, first, other>>

(***************************************************************************)
(* Inputs                                                                  *)
(***************************************************************************)
\* bounds of the model
MaxNodes == 3          \* nodes of a tree (Spec)
MaxLayoutNodes == 5    \* nodes of a tree (SpecLayout)
MaxFreeNodes == 3      \* nodes of a tree whose labels may be "" (SpecLayout)
MaxPathLen == 2        \* indices of a path argument
MaxOps == 2            \* calls made on one layout (Spec)
MaxLayoutOps == 1      \* calls made on one layout (SpecLayout)
MaxSplitOps == 5       \* calls made on one tree value (SpecSplit)
MaxItems == 2          \* elements of a sequence value (SpecSplit)
MaxRenderOps == 3
MaxHtmlNodes == 4       \* nodes of a tree (SpecHtml)
MaxHtmlOps == 2         \* calls made on one DivTreeLayout (SpecHtml)
MaxWideNodes == 4       \* nodes of a tree (SpecWide)
WideLabelLen == 300     \* characters of the long label (SpecWide)
MaxSpanNodes == 4       \* nodes of a tree (SpecSpan)
MaxSpanOps == 1         \* calls made on one layout (SpecSpan)
MaxRowNodes == 4        \* nodes of a tree (SpecRows)
MaxEdgeNodes == 4       \* nodes of a tree of strs (SpecEdge)
MaxEdgeOps == 3         \* calls made on one layout (SpecEdge)
MaxDrawNodes == 3       \* nodes of a tree (SpecDraw)
MaxDrawOps == 3         \* calls made on one layout (SpecDraw)
MaxForgetNodes == 3
MaxForgetOps == 3
MaxOptionNodes == 2
MaxOptionOps == 3
MaxArrowNodes == 4
MaxArrowOps == 2

RECURSIVE ForestsN(_)
\* the sequences of tree shapes with m nodes in all; a shape is the sequence
\* of the shapes of its daughters (a leaf is <<>>)
ForestsN(m) ==
    IF m = 0 THEN {<<>>}
    ELSE UNION {{<<sh>> \o f : sh \in ForestsN(j - 1), f \in ForestsN(m - j)} : j \in 1..m}

\* the tree shapes with at most n nodes
Shapes(n) == UNION {ForestsN(k - 1) : k \in 1..n}

RECURSIVE SeqsIn(_)
\* the sequences whose i-th element is in S[i]
SeqsIn(S) ==
    IF S = <<>> THEN {<<>>}
    ELSE {<<h>> \o t : h \in Head(S), t \in SeqsIn(Tail(S))}

\* label texts: "", a two-character word, two lines of nine and one characters
TextInputs == {<<>>, <<2>>, <<9, 1>>}

\* the label texts of the larger trees
LongTextInputs == {<<2>>, <<9, 1>>}

RECURSIVE FreeTrees(_, _)
\* the lisp-style trees of a shape whose labels are strs from texts
FreeTrees(shape, texts) ==
    IF shape = <<>> THEN {Str(x) : x \in texts}
    ELSE {SeqVal(<<Str(x)>> \o ks) :
            x \in texts,
            ks \in SeqsIn(Tup([i \in 1..Len(shape) |-> FreeTrees(shape[i], texts)]))}

\* the text of the label at a path: root "S", first daughters a two-character
\* word, second daughters two lines, later daughters ""
TextAt(path) ==
    IF path = <<>> THEN <<1>>
    ELSE IF path[Len(path)] = 0 THEN <<2>>
    ELSE IF path[Len(path)] = 1 THEN <<5, 3>>
    ELSE <<>>

\* how the label at path `at` is given: as a str, as node(text, options=
\* TreeOptions(font_size=24)) (a DeferredNodePos), or as a finished NodePos
\* (the NodePos that node(text)() returns)
LabelKinds == {"str", "deferred", "nodepos"}

LabelAt(path, special) ==
    IF special.at # path \/ special.kind = "str" THEN Str(TextAt(path))
    ELSE IF special.kind = "deferred"
    THEN [kind |-> "deferred", arg |-> Str(TextAt(path)),
          outer |-> TreeOptions([font_size |-> 24])]
    ELSE [kind |-> "nodepos", id |-> 1]

RECURSIVE PatternTree(_, _, _)
\* the lisp-style tree of a shape with the labels LabelAt gives
PatternTree(shape, path, special) ==
    IF shape = <<>> THEN LabelAt(path, special)
    ELSE SeqVal(<<LabelAt(path, special)>> \o
                Tup([i \in 1..Len(shape) |-> PatternTree(shape[i], Append(path, i - 1), special)]))

\* the NodePos objects a pattern tree owns
PatternHeap(special) ==
    IF special.kind = "nodepos"
    THEN [id \in {1} |-> [multiline_node(Str(TextAt(special.at)), None) EXCEPT !.id = 1]]
    ELSE <<>>

\* the nodes given specially: the root or the first daughter of the root
SpecialInputs ==
    {[at |-> <<>>, kind |-> "str"]} \cup
    {[at |-> p, kind |-> k] : p \in {<<>>, <<0>>}, k \in LabelKinds \ {"str"}}

HasPath(shape, path) ==
    path = <<>> \/ (path = <<0>> /\ shape # <<>>)

\* the trees of Spec, each with the NodePos objects it owns
TreeInputs ==
    UNION {{[tree |-> PatternTree(sh, <<>>, sp), heap |-> PatternHeap(sp)] :
                sp \in {x \in SpecialInputs : HasPath(sh, x.at)}} :
           sh \in Shapes(MaxNodes)}

\* the trees of SpecLayout
LayoutTreeInputs ==
    {[tree |-> t, heap |-> <<>>] :
        t \in UNION {FreeTrees(sh, TextInputs) : sh \in Shapes(MaxFreeNodes)} \cup
              UNION {FreeTrees(sh, LongTextInputs) : sh \in Shapes(MaxLayoutNodes)}}

\* keyword arguments of the TreeOptions the caller passes (Spec)
OptionInputs ==
    {<<>>,
     [horiz_spacing |-> "EVEN", leaf_nodes_align |-> TRUE],
     [horiz_spacing |-> "NODES", vert_align |-> "FULL", font_size |-> 8]}

\* keyword arguments of the TreeOptions the caller passes (SpecLayout)
LayoutOptionInputs ==
    {[horiz_spacing |-> h, leaf_nodes_align |-> a, vert_align |-> v] :
        h \in {"TEXT", "EVEN", "NODES"}, a \in BOOLEAN, v \in {"CENTER", "FULL"}}

\* path arguments: daughter indices 0, 1, -1 and -2
IndexInputs == {0, 1, -1, -2}
PathInputs == UNION {[1..n -> IndexInputs] : n \in 0..MaxPathLen}

\* a few paths for the calls that annotate or take keywords: the root, a
\* first and a last daughter, a granddaughter, and a path whose second index
\* is out of range in every tree of Spec that has a second daughter
FewPaths == {<<>>, <<0>>, <<-1>>, <<-1, 0>>, <<1, -2>>}

\* the ends of arrows
ArrowPaths == FewPaths \ {<<>>}

\* the nodes styled alone or with their subtree
StylePaths == {<<>>, <<-1>>, <<1, -2>>}

\* keyword arguments of the style calls
StyleInputs ==
    {[font_size |-> 32], [debug |-> TRUE], [horiz_spacing |-> "EVEN"],
     [font_size |-> 8, vert_align |-> "TOP"]}

\* edge styles
EdgeStyleInputs == {"TriangleEdge", "EmptyEdge"}

(***************************************************************************)
(* Specifications                                                          *)
(***************************************************************************)
\* TreeLayout(t, options=TreeOptions(**kw)) has returned
Constructed(input, kw) ==
    \E r \in {_do_layout(copy(TreeOptions(kw)), input.heap, input.tree, None)} :
        /\ tree = input.tree
        /\ caller_options = TreeOptions(kw)
        /\ options = copy(TreeOptions(kw))
        /\ layout = r.layout
        /\ level_heights = r.level_heights
        /\ level_ys = r.level_ys
        /\ depth = r.depth
        /\ max_width = r.max_width
        /\ heap = StoreNodes(input.heap, r.layout)
        /\ extra_y = <<1, 2>>
        /\ annotations = <<>>
        /\ _movement_arrows = <<>>
        /\ ret = Returned("TreeLayout", <<kw>>)
        /\ nops = 0
        /\ calls = {}
        /\ first = [kw |-> kw, geometry |-> Geometry(r.layout), max_width |-> r.max_width]
        /\ other = None

Init == \E input \in TreeInputs, kw \in OptionInputs : Constructed(input, kw)

Bounds == nops < MaxOps /\ \E path \in PathInputs : SubtreeBounds(path)
Box == nops < MaxOps /\ \E path \in FewPaths : BoxConstituent(path)
Underline == nops < MaxOps /\ \E path \in FewPaths : UnderlineConstituent(path)
Arrow ==
    nops < MaxOps /\ \E path1 \in ArrowPaths, path2 \in ArrowPaths : MovementArrow(path1, path2)
NodeStyle ==
    nops < MaxOps /\ \E path \in StylePaths, opts \in StyleInputs : SetNodeStyle(path, opts)
SubtreeStyle ==
    nops < MaxOps /\ \E path \in StylePaths, opts \in StyleInputs : SetSubtreeStyle(path, opts)
LeafStyle == nops < MaxOps /\ \E opts \in StyleInputs : SetLeafStyle(opts)
Again == nops < MaxOps /\ Relayout
EdgeStyle ==
    nops < MaxOps /\ \E path \in FewPaths, style \in EdgeStyleInputs : SetEdgeStyle(path, style)
Build == nops < MaxOps /\ \E kw \in OptionInputs : Construct(kw)

Next ==
    \/ Bounds
    \/ Box
    \/ Underline
    \/ Arrow
    \/ NodeStyle
    \/ SubtreeStyle
    \/ LeafStyle
    \/ Again
    \/ EdgeStyle
    \/ Build

Spec == Init /\ [][Next]_vars

\* layouts of many trees and options, then one style call or relayout
InitLayout ==
    \E input \in LayoutTreeInputs, kw \in LayoutOptionInputs : Constructed(input, kw)

LayoutNodeStyle ==
    nops < MaxLayoutOps /\
    \E path \in FewPaths, fs \in {8, 32} : SetNodeStyle(path, [font_size |-> fs])
LayoutLeafStyle ==
    nops < MaxLayoutOps /\ \E fs \in {8, 32} : SetLeafStyle([font_size |-> fs])
LayoutAgain == nops < MaxLayoutOps /\ Relayout

NextLayout ==
    \/ LayoutNodeStyle
    \/ LayoutLeafStyle
    \/ LayoutAgain

SpecLayout == InitLayout /\ [][NextLayout]_vars

\* keyword arguments of the TreeOptions the caller passes (SpecRender)
RenderOptionInputs ==
    {[leaf_edges |-> e, descend_direct |-> d] : e \in BOOLEAN, d \in BOOLEAN}

\* layouts whose edges are styled and drawn
InitRender ==
    \E input \in TreeInputs, kw \in RenderOptionInputs : Constructed(input, kw)

RenderEdgeStyle ==
    nops < MaxRenderOps /\
    \E path \in FewPaths, style \in EdgeStyleInputs : SetEdgeStyle(path, style)
RenderDraw == nops < MaxRenderOps /\ SvgBuildTree
RenderAgain == nops < MaxRenderOps /\ Relayout

NextRender ==
    \/ RenderEdgeStyle
    \/ RenderDraw
    \/ RenderAgain

SpecRender == InitRender /\ [][NextRender]_vars

\* layouts that are annotated with arrows, laid out again and annotated again
ForgetTreeInputs ==
    {[tree |-> PatternTree(sh, <<>>, [at |-> <<>>, kind |-> "str"]), heap |-> <<>>] :
        sh \in Shapes(MaxForgetNodes)}

InitForget ==
    \E input \in ForgetTreeInputs, kw \in {<<>>, [leaf_nodes_align |-> TRUE]} :
        Constructed(input, kw)

ForgetMovement ==
    nops < MaxForgetOps /\
    \E path1 \in ArrowPaths, path2 \in ArrowPaths : MovementArrow(path1, path2)
ForgetAgain == nops < MaxForgetOps /\ Relayout
ForgetLeafStyle ==
    nops < MaxForgetOps /\ \E opts \in {<<>>, [font_size |-> 10]} : SetLeafStyle(opts)

NextForget ==
    \/ ForgetMovement
    \/ ForgetAgain
    \/ ForgetLeafStyle

SpecForget == InitForget /\ [][NextForget]_vars

\* the caller goes on setting and deleting options on the object that was
\* passed to the layout, copies it and builds layouts with it
OptionTreeInputs ==
    {[tree |-> PatternTree(sh, <<>>, [at |-> <<>>, kind |-> "str"]), heap |-> <<>>] :
        sh \in Shapes(MaxOptionNodes)}

\* option keys (one of them unknown) with the values set on them
OptionValueInputs ==
    {<<"distance_to_daughter", 3>>, <<"leaf_padding", 4>>, <<"debug", TRUE>>,
     <<"debug", FALSE>>, <<"colour", 1>>}

InitOptions ==
    \E input \in OptionTreeInputs, kw \in {<<>>, [distance_to_daughter |-> 4]} :
        Constructed(input, kw)

OptionsItem ==
    nops < MaxOptionOps /\ \E kv \in OptionValueInputs : OptionSetItem(kv[1], kv[2])
OptionsAttr ==
    nops < MaxOptionOps /\
    \E kv \in {e \in OptionValueInputs : e[1] \in OptKeys} : OptionSetAttr(kv[1], kv[2])
OptionsDel ==
    nops < MaxOptionOps /\ \E kv \in OptionValueInputs : OptionDelItem(kv[1])
OptionsCopy == nops < MaxOptionOps /\ OptionCopy
OptionsLayout == nops < MaxOptionOps /\ TreeLayoutWith

NextOptions ==
    \/ OptionsItem
    \/ OptionsAttr
    \/ OptionsDel
    \/ OptionsCopy
    \/ OptionsLayout

SpecOptions == InitOptions /\ [][NextOptions]_vars

\* the trees of SpecArrow: every shape of up to MaxArrowNodes nodes, labelled
\* with strs
ArrowTreeInputs ==
    {[tree |-> PatternTree(sh, <<>>, [at |-> <<>>, kind |-> "str"]), heap |-> <<>>] :
        sh \in Shapes(MaxArrowNodes)}

\* layouts that are annotated with underlines and arrows
InitArrow ==
    \E input \in ArrowTreeInputs, kw \in OptionInputs : Constructed(input, kw)

ArrowUnderline ==
    nops < MaxArrowOps /\ \E path \in FewPaths : UnderlineConstituent(path)
ArrowMovement ==
    nops < MaxArrowOps /\
    \E path1 \in ArrowPaths, path2 \in ArrowPaths : MovementArrow(path1, path2)

NextArrow ==
    \/ ArrowUnderline
    \/ ArrowMovement

SpecArrow == InitArrow /\ [][NextArrow]_vars

\* tree values that are no sequences: strs, an object whose str() is three
\* characters, an object with label() that cannot be listed, an
\* ElementTree.Element, node("ab") and a NodePos
AtomInputs ==
    {Str(<<>>), Str(<<2>>),
     [kind |-> "obj", text |-> <<3>>],
     [kind |-> "labelled", label |-> Str(<<1>>), text |-> <<4>>],
     [kind |-> "element"],
     [kind |-> "deferred", arg |-> Str(<<2>>), outer |-> None],
     [kind |-> "nodepos", id |-> 1]}

\* lists and tuples of atoms
FlatSeqInputs ==
    {SeqVal(items) : items \in UNION {[1..n -> AtomInputs] : n \in 0..MaxItems}}

\* nltk.Tree values: the label a str, an object or a list
NltkInputs ==
    {[kind |-> "nltk", label |-> l, items |-> items] :
        l \in {Str(<<1>>), [kind |-> "obj", text |-> <<3>>], SeqVal(<<Str(<<1>>)>>)},
        items \in UNION {[1..n -> {Str(<<2>>), SeqVal(<<Str(<<2>>)>>)}] : n \in 0..MaxItems}}

\* lists whose first element is a list, a tuple or an nltk.Tree
NestedSeqInputs ==
    {SeqVal(<<h>> \o items) :
        h \in {SeqVal(<<>>), SeqVal(<<Str(<<2>>)>>),
                [kind |-> "nltk", label |-> Str(<<1>>), items |-> <<>>]},
        items \in UNION {[1..n -> {Str(<<2>>)}] : n \in 0..(MaxItems - 1)}}

\* the tree values of SpecSplit
SplitInputs == AtomInputs \cup FlatSeqInputs \cup NltkInputs \cup NestedSeqInputs

\* the options of SpecSplit: no custom tree_split, or one of CustomSplits
SplitOptionInputs == {<<>>} \cup {[tree_split |-> c] : c \in CustomSplits}

\* a tree value and the options to split it with
InitSplit ==
    \E t \in SplitInputs, kw \in SplitOptionInputs :
        /\ tree = t
        /\ heap = PatternHeap([kind |-> "nodepos", at |-> <<0>>])
        /\ caller_options = TreeOptions(kw)
        /\ options = copy(TreeOptions(kw))
        /\ layout = None
        /\ level_heights = <<>>
        /\ level_ys = <<>>
        /\ depth = 0
        /\ max_width = RInt(0)
        /\ extra_y = <<1, 2>>
        /\ annotations = <<>>
        /\ _movement_arrows = <<>>
        /\ ret = Returned("TreeOptions", <<kw>>)
        /\ nops = 0
        /\ calls = {}
        /\ first = None
        /\ other = None

SplitTree == nops < MaxSplitOps /\ Split
FinalizeLabel == nops < MaxSplitOps /\ Finalize
NextChild == nops < MaxSplitOps /\ \E i \in 0..(MaxItems - 1) : Descend(i)

NextSplit ==
    \/ SplitTree
    \/ FinalizeLabel
    \/ NextChild

SpecSplit == InitSplit /\ [][NextSplit]_vars

\* the trees of SpecHtml: an Element, lisp-style trees of strs, and trees
\* with an Element as a label or as a leaf
HtmlTreeInputs ==
    {[kind |-> "element"]}
    \cup {PatternTree(sh, <<>>, [at |-> <<>>, kind |-> "str"]) : sh \in Shapes(MaxHtmlNodes)}
    \cup {SeqVal(<<Str(<<1>>), [kind |-> "element"]>>),
          SeqVal(<<[kind |-> "element"], Str(<<2>>), Str(<<2>>), Str(<<2>>)>>)}

\* the options of SpecHtml
HtmlOptionInputs ==
    {[horiz_spacing |-> h, debug |-> d] : h \in {"TEXT", "EVEN", "NODES"}, d \in BOOLEAN}

InitHtml ==
    \E t \in HtmlTreeInputs, kw \in HtmlOptionInputs : DivTreeLayout(t, kw)

HtmlRender == nops < MaxHtmlOps /\ Render
HtmlRepr == nops < MaxHtmlOps /\ ReprHtml

NextHtml ==
    \/ HtmlRender
    \/ HtmlRepr

SpecHtml == InitHtml /\ [][NextHtml]_vars

\* the trees of SpecWide: every label is "" or one line of WideLabelLen
\* characters
WideTreeInputs ==
    {[tree |-> t, heap |-> <<>>] :
        t \in UNION {FreeTrees(sh, {<<>>, <<WideLabelLen>>}) : sh \in Shapes(MaxWideNodes)}}

\* keyword arguments of the TreeOptions the caller passes (SpecWide)
WideOptionInputs ==
    {[horiz_spacing |-> h, leaf_padding |-> lp] :
        h \in {"TEXT", "EVEN", "NODES"}, lp \in {0, 2}}

\* layouts of trees with very short and very long labels, then one style
\* call or relayout
InitWide ==
    \E input \in WideTreeInputs, kw \in WideOptionInputs : Constructed(input, kw)

SpecWide == InitWide /\ [][NextLayout]_vars

\* the trees of SpecSpan
SpanTreeInputs ==
    {[tree |-> PatternTree(sh, <<>>, [at |-> <<>>, kind |-> "str"]), heap |-> <<>>] :
        sh \in Shapes(MaxSpanNodes)}

\* the ends of a span: paths of daughter indices 0, 1 and -1
SpanPaths == UNION {[1..n -> {0, 1, -1}] : n \in 0..MaxPathLen}

\* layouts whose leaf spans are asked for
InitSpan ==
    \E input \in SpanTreeInputs, kw \in {<<>>, [leaf_nodes_align |-> TRUE]} :
        Constructed(input, kw)

SpanLeaves ==
    nops < MaxSpanOps /\ \E path1 \in SpanPaths, path2 \in SpanPaths : LeafSpanIter(path1, path2)
SpanDeepest ==
    nops < MaxSpanOps /\
    \E path1 \in SpanPaths, path2 \in SpanPaths : DeepestInterveningLeaf(path1, path2)

NextSpan ==
    \/ SpanLeaves
    \/ SpanDeepest

SpecSpan == InitSpan /\ [][NextSpan]_vars

\* keyword arguments of the TreeOptions the caller passes (SpecRows)
RowOptionInputs ==
    {[vert_align |-> v, leaf_nodes_align |-> a] :
        v \in {"TOP", "CENTER", "BOTTOM", "FULL"}, a \in BOOLEAN}

\* layouts with labels of no, one and two lines in every vertical alignment,
\* then one style call or relayout
InitRows ==
    \E sh \in Shapes(MaxRowNodes), kw \in RowOptionInputs :
        Constructed([tree |-> PatternTree(sh, <<>>, [at |-> <<>>, kind |-> "str"]),
                     heap |-> <<>>], kw)

SpecRows == InitRows /\ [][NextLayout]_vars

\* the trees of SpecEdge: the trees of Spec, some of which own a NodePos, and
\* larger trees of strs
EdgeTreeInputs ==
    TreeInputs \cup
    {[tree |-> PatternTree(sh, <<>>, [at |-> <<>>, kind |-> "str"]), heap |-> <<>>] :
        sh \in Shapes(MaxEdgeNodes)}

\* the edges styled: paths whose last index is that of an existing daughter,
\* too large, negative beyond the first daughter, or a daughter of a leaf
EdgePaths == {<<>>, <<0>>, <<-1>>, <<1>>, <<-2>>, <<-3>>, <<0, 0>>, <<0, -1>>, <<-1, -2>>}

\* layouts whose edges are styled, which are then restyled, laid out again
\* and drawn
InitEdge ==
    \E input \in EdgeTreeInputs, kw \in {<<>>, [leaf_edges |-> FALSE]} :
        Constructed(input, kw)

EdgeSet ==
    nops < MaxEdgeOps /\
    \E path \in EdgePaths, style \in EdgeStyleInputs : SetEdgeStyle(path, style)
EdgeNodeStyle ==
    nops < MaxEdgeOps /\ \E path \in {<<>>, <<0>>} : SetNodeStyle(path, [font_size |-> 32])
EdgeSubtreeStyle ==
    nops < MaxEdgeOps /\ SetSubtreeStyle(<<>>, [debug |-> TRUE])
EdgeLeafStyle == nops < MaxEdgeOps /\ SetLeafStyle([font_size |-> 8])
EdgeAgain == nops < MaxEdgeOps /\ Relayout
EdgeDraw == nops < MaxEdgeOps /\ SvgBuildTree

NextEdge ==
    \/ EdgeSet
    \/ EdgeNodeStyle
    \/ EdgeSubtreeStyle
    \/ EdgeLeafStyle
    \/ EdgeAgain
    \/ EdgeDraw

SpecEdge == InitEdge /\ [][NextEdge]_vars

\* layouts that are annotated and drawn
InitDraw ==
    \E sh \in Shapes(MaxDrawNodes), kw \in {<<>>, [debug |-> TRUE]} :
        Constructed([tree |-> PatternTree(sh, <<>>, [at |-> <<>>, kind |-> "str"]),
                     heap |-> <<>>], kw)

DrawBox == nops < MaxDrawOps /\ \E path \in {<<>>, <<0>>} : BoxConstituent(path)
DrawUnderline == nops < MaxDrawOps /\ \E path \in {<<>>, <<-1>>} : UnderlineConstituent(path)
DrawArrow == nops < MaxDrawOps /\ MovementArrow(<<0>>, <<-1>>)
DrawBuild == nops < MaxDrawOps /\ SvgBuildTree
DrawGet == nops < MaxDrawOps /\ GetSvg
DrawRepr == nops < MaxDrawOps /\ ReprSvg

NextDraw ==
    \/ DrawBox
    \/ DrawUnderline
    \/ DrawArrow
    \/ DrawBuild
    \/ DrawGet
    \/ DrawRepr

SpecDraw == InitDraw /\ [][NextDraw]_vars

(***************************************************************************)
(* Properties                                                              *)
(***************************************************************************)
RECURSIVE SubtreeSet(_)
\* every position of a layout: the layout and the layouts below it
SubtreeSet(t) == {t} \cup UNION {SubtreeSet(t.kids[i]) : i \in 1..Len(t.kids)}

\* the positions of self.layout that have children
Parents == {p \in SubtreeSet(layout) : Len(p.kids) > 0}

\* the widths of the children of p
KidWidths(p) == Tup([i \in 1..Len(p.kids) |-> p.kids[i].node.width])

RECURSIVE EmWidth(_)
\* the intrinsic width of a position in ems of the tree's font size: that of
\* its label, or that of its children together if they are wider
EmWidth(p) ==
    RMax(RDiv(RMul(p.node.orig_width, RInt(p.node.options.val.font_size)),
              RInt(options.val.font_size)),
         RSum(Tup([i \in 1..Len(p.kids) |-> EmWidth(p.kids[i])])))

\* C2: after layout, and after every relayout a style call triggers, the
\* root has width 100 percent and x 0, and max_width is the root's intrinsic
\* em width from before normalization.
RootWidth ==
    /\ layout.node.width = RInt(100)
    /\ layout.node.x = RInt(0)
    /\ max_width = EmWidth(layout)

\* a style call has relaid out a tree with children whose root is wider than
\* its label
RootWidthWitness ==
    /\ ret.op = "set_node_style" /\ ret.exc = None
    /\ Len(layout.kids) > 0
    /\ RLt(layout.node.orig_width, max_width)
    /\ max_width # RInt(100)

\* C3 as stated: for every parent and child of the laid-out tree
\* child.depth = parent.depth + 1, also for a leaf under leaf_nodes_align.
StructuralDepth ==
    \A p \in Parents : \A i \in 1..Len(p.kids) :
        p.kids[i].node.depth = p.node.depth + 1

\* C3: for every parent and child of the laid-out tree child.depth =
\* parent.depth + 1, except that with leaf_nodes_align a leaf's stored depth
\* is the deepest level of the tree (self.depth), the row it is drawn in.
MonotoneDepth ==
    \A p \in Parents : \A i \in 1..Len(p.kids) :
        p.kids[i].node.depth =
            IF options.val.leaf_nodes_align /\ Len(p.kids[i].kids) = 0
            THEN depth
            ELSE p.node.depth + 1

\* leaf_nodes_align is set and a leaf lies above the deepest level of the
\* tree while its sister is a parent
MonotoneDepthWitness ==
    /\ options.val.leaf_nodes_align
    /\ \E p \in Parents : \E i, j \in 1..Len(p.kids) :
          /\ Len(p.kids[i].kids) = 0
          /\ Len(p.kids[j].kids) > 0
          /\ p.kids[i].node.depth = depth
          /\ p.kids[j].node.depth = p.node.depth + 1
          /\ depth > p.node.depth + 1

RECURSIVE LeafCount(_)
\* the number of leaves under a position
LeafCount(p) ==
    IF Len(p.kids) = 0 THEN 1
    ELSE RSum(Tup([i \in 1..Len(p.kids) |-> RInt(LeafCount(p.kids[i]))]))[1]

\* w(c) of a child c in the spacing mode of the tree
Weight(c) ==
    CASE options.val.horiz_spacing = "TEXT" -> EmWidth(c)
      [] options.val.horiz_spacing = "NODES" ->
            RInt(LeafCount(c) * (1 + options.val.leaf_padding))
      [] options.val.horiz_spacing = "EVEN" -> RInt(1)

\* C4: width normalization gives child ci of a node with children c1..cn
\* the share 100 * w(ci) / sum_j w(cj), w(c) being c's intrinsic em width
\* under TEXT spacing, the number of leaves under c times (1 + leaf_padding)
\* under NODES spacing, and 1 under EVEN spacing.
WidthShares ==
    \A p \in Parents : \A i \in 1..Len(p.kids) :
        p.kids[i].node.width =
            RDiv(RMul(RInt(100), Weight(p.kids[i])),
                 RSum(Tup([j \in 1..Len(p.kids) |-> Weight(p.kids[j])])))

\* NODES spacing of a tree in which one sister has two leaves and the other
\* one, and the sister with one leaf has the wider label
WidthSharesWitness ==
    /\ options.val.horiz_spacing = "NODES"
    /\ Len(layout.kids) = 2
    /\ LeafCount(layout.kids[1]) = 2
    /\ LeafCount(layout.kids[2]) = 1
    /\ RLt(EmWidth(layout.kids[1]), EmWidth(layout.kids[2]))
    /\ layout.kids[1].node.width = <<200, 3>>

\* the calls that build a layout, annotate one or ask for its geometry
BuildOrAnnotate ==
    {"TreeLayout", "box_constituent", "underline_constituent", "movement_arrow",
     "subtree_bounds"}

\* C5: layout is deterministic: a TreeLayout built again on the same tree
\* with the same options has the width, x, y and depth of the first one at
\* every node, whatever layouts were built or annotated in between.
Deterministic ==
    (other # None /\ other.kw = first.kw /\ calls \subseteq BuildOrAnnotate) =>
        /\ other.geometry = first.geometry
        /\ other.max_width = first.max_width

\* a tree that owns a NodePos has been laid out, annotated with an arrow and
\* laid out again with the same options
DeterministicWitness ==
    /\ other # None
    /\ other.kw = first.kw
    /\ first.kw # <<>>
    /\ DOMAIN heap # {}
    /\ calls = {"movement_arrow", "TreeLayout"}
    /\ Len(layout.kids) = 2

\* the custom tree_split of the options handles the value
CustomHandles(o, t) ==
    /\ o.val.tree_split # "None"
    /\ custom_tree_split(o.val.tree_split, t) # None

\* the raw label and the children a value resolves to: by the custom
\* tree_split if it handles the value, else through label() and the list of
\* children, else as a sequence, else as a leaf
Resolved(o, t) ==
    IF CustomHandles(o, t)
    THEN <<custom_tree_split(o.val.tree_split, t).label,
           custom_tree_split(o.val.tree_split, t).children>>
    ELSE IF t.kind = "nltk" THEN <<t.label, t.items>>
    ELSE IF t.kind = "seq"
    THEN IF t.items = <<>> THEN <<EmptyStr, <<>>>> ELSE <<Head(t.items), Tail(t.items)>>
    ELSE <<t, <<>>>>

\* the string form of a value: a str is its own, an object's is its str(),
\* that of a node object or an Element is a repr of forty characters
StringForm(x) ==
    IF x.kind = "str" THEN x
    ELSE IF "text" \in DOMAIN x THEN Str(x.text)
    ELSE Str(<<40>>)

\* the node made of a text
NodeOf(text) == [kind |-> "deferred", arg |-> text, outer |-> None]

\* C6 as stated: the resolution order, and anything that is neither
\* labelled nor a sequence becomes a leaf labelled with its string form.
SplitOrderStringForm ==
    ret.op = "split" =>
        /\ ret.exc = None
        /\ ret.val.children = Resolved(options, tree)[2]
        /\ (CustomHandles(options, tree) \/ tree.kind \in {"nltk", "seq"}) =>
              ret.val.label \in {Resolved(options, tree)[1],
                                 NodeOf(Resolved(options, tree)[1]),
                                 NodeOf(StringForm(Resolved(options, tree)[1]))}
        /\ ~(CustomHandles(options, tree) \/ tree.kind \in {"nltk", "seq"}) =>
              ret.val.label = NodeOf(StringForm(tree))

\* the label split returns for a raw label: a node as it is, a str or a
\* sequence wrapped by the default node builder, anything else wrapped in its
\* string form
LabelOf(x) ==
    IF x.kind \in {"nodepos", "deferred"} THEN x
    ELSE IF x.kind \in {"str", "seq", "nltk"} THEN NodeOf(x)
    ELSE NodeOf(StringForm(x))

\* C6: splitting resolves in a fixed order, first match wins: the custom
\* tree_split of the options first and, if it returns None, the built-in
\* chain; there a value with label() and listable children before a
\* sequence; a non-string sequence gives element 0 as label and the rest as
\* children, an empty one a leaf labelled ""; anything else is a leaf with
\* no children, labelled with its string form unless it is a node already
\* (NodePos, DeferredNodePos), which is the label itself; a raw label that
\* is an ElementTree.Element makes split raise ValueError.
SplitOrder ==
    ret.op = "split" =>
        IF Resolved(options, tree)[1].kind = "element"
        THEN ret.exc = [kind |-> "ValueError"]
        ELSE /\ ret.exc = None
             /\ ret.val = Pair(LabelOf(Resolved(options, tree)[1]),
                               Resolved(options, tree)[2])

\* an nltk.Tree with two children has been split under a custom tree_split
\* that returned None for it: its label() is the label, not its element 0
SplitOrderWitness ==
    /\ ret.op = "split" /\ ret.exc = None
    /\ options.val.tree_split = "last_is_label"
    /\ tree.kind = "nltk"
    /\ Len(tree.items) = 2
    /\ ret.val.label = NodeOf(tree.label)
    /\ ret.val.label # NodeOf(tree.items[1])

\* the kinds of tree value: string leaf, non-sequence object, non-string
\* sequence, labelled container
TreeValueKinds == {"str", "obj", "seq", "nltk", "labelled"}

\* C7 as stated: for every tree value, splitting and finalizing the label
\* never raises.
AdaptationNeverRaises ==
    (ret.op \in {"split", "in_context"} /\ tree.kind \in TreeValueKinds) =>
        ret.exc = None

\* C7: splitting a tree value and finalizing its label yields a label and
\* ordered children and raises nothing, unless the raw label is an
\* ElementTree.Element (split raises ValueError) or a non-string sequence
\* (a list whose first element is a list, a label() that is a list: split
\* returns a pair, finalizing its label raises TypeError).
AdaptationTotal ==
    /\ ret.op = "split" =>
          IF Resolved(options, tree)[1].kind = "element"
          THEN ret.exc = [kind |-> "ValueError"]
          ELSE ret.exc = None /\ ret.val.kind = "pair"
    /\ ret.op = "in_context" =>
          IF Resolved(options, tree)[1].kind \in {"seq", "nltk"}
          THEN ret.exc = TypeError
          ELSE ret.exc = None /\ ret.children = Resolved(options, tree)[2]

\* a list of an object and a str has been split and its label finalized
AdaptationTotalWitness ==
    /\ ret.op = "in_context" /\ ret.exc = None
    /\ options.val.tree_split = "None"
    /\ tree.kind = "seq"
    /\ Len(tree.items) = 2
    /\ tree.items[1].kind = "obj"
    /\ ret.val.text = tree.items[1].text

\* the calls that ask for the geometry of a subtree or annotate one
GeometryCalls ==
    {"subtree_bounds", "box_constituent", "underline_constituent", "movement_arrow"}

\* a daughter index that a node with n children has
InRange(n, c) == -n <= c /\ c < n

\* the position from the start that an index in range addresses
FromStart(n, c) == IF c < 0 THEN n + c ELSE c

RECURSIVE FirstInvalid(_, _, _)
\* the position (from 0) of the first index of the path, from position i on,
\* that the node the indices before it lead to does not have; -1 if there is
\* none
FirstInvalid(t, path, i) ==
    IF i >= Len(path) THEN -1
    ELSE IF ~InRange(Len(t.kids), path[i + 1]) THEN i
    ELSE FirstInvalid(t.kids[FromStart(Len(t.kids), path[i + 1]) + 1], path, i + 1)

\* the paths among the arguments of a call that have an invalid index
BadPaths(t, args) == SelectSeq(args, LAMBDA path : FirstInvalid(t, path, 0) # -1)

\* the error that names the first invalid index of a path
InvalidPath(t, path) ==
    [kind |-> "AttributeError", what |-> "Invalid tree path",
     index |-> FirstInvalid(t, path, 0),
     daughter |-> path[FirstInvalid(t, path, 0) + 1]]

\* C8: subtree_bounds, box_constituent, underline_constituent or
\* movement_arrow called with a path that has an out-of-range child index
\* raises the invalid-path AttributeError naming the position and the value
\* of the first invalid index (of the first such path), and leaves the
\* annotations, extra_y, the list of movement arrows and the geometry of
\* every node as they were.
InvalidPathRaises ==
    [][(/\ nops' = nops + 1
        /\ ret'.op \in GeometryCalls
        /\ BadPaths(layout, ret'.args) # <<>>) =>
            /\ ret'.exc = InvalidPath(layout, Head(BadPaths(layout, ret'.args)))
            /\ annotations' = annotations
            /\ extra_y' = extra_y
            /\ _movement_arrows' = _movement_arrows
            /\ Geometry(layout') = Geometry(layout)
            /\ <<level_heights, level_ys, depth, max_width>>' =
                   <<level_heights, level_ys, depth, max_width>>]_vars

\* after one arrow has been drawn, a second arrow whose first path is out of
\* range at its second index has raised, and the first arrow is all there is
InvalidPathRaisesWitness ==
    /\ ret.op = "movement_arrow"
    /\ ret.exc # None
    /\ ret.exc.kind = "AttributeError"
    /\ ret.exc.index = 1
    /\ ret.exc.daughter = -2
    /\ Len(_movement_arrows) = 1
    /\ Len(annotations) = 2
    /\ RLt(<<1, 2>>, extra_y)

RECURSIVE ModuloPath(_, _)
\* the path with every negative index taken modulo the number of children of
\* the node it is applied to; <<-1>> from the first index on that no child
\* answers to
ModuloPath(t, path) ==
    IF path = <<>> THEN <<>>
    ELSE IF Len(t.kids) = 0 \/ Head(path) >= Len(t.kids) THEN <<-1>>
    ELSE <<Head(path) % Len(t.kids)>>
             \o ModuloPath(t.kids[(Head(path) % Len(t.kids)) + 1], Tail(path))

\* C9 as stated: a negative index i on a node with n children addresses the
\* child that index i mod n addresses.
NegativeIndexModulo ==
    (/\ ret.op = "subtree_bounds"
     /\ \A i \in 1..Len(ModuloPath(layout, ret.args[1])) :
            ModuloPath(layout, ret.args[1])[i] # -1) =>
        /\ ret.exc = None
        /\ ret.val = subtree_bounds(self, ModuloPath(layout, ret.args[1]))

RECURSIVE FromStartPath(_, _)
\* a path whose indices are all in range, with every index counted from the
\* start
FromStartPath(t, path) ==
    IF path = <<>> THEN <<>>
    ELSE <<FromStart(Len(t.kids), Head(path))>>
             \o FromStartPath(t.kids[FromStart(Len(t.kids), Head(path)) + 1], Tail(path))

\* C9: in path lookup a negative index i on a node with n children addresses
\* the child that index n + i (which is i mod n) addresses when -n <= i; an
\* index below -n is out of range, as an index of n or more is, and the
\* lookup raises the invalid-path AttributeError.
NegativeIndex ==
    ret.op = "subtree_bounds" =>
        IF FirstInvalid(layout, ret.args[1], 0) = -1
        THEN /\ ret.exc = None
             /\ ret.val = subtree_bounds(self, FromStartPath(layout, ret.args[1]))
        ELSE ret.exc = InvalidPath(layout, ret.args[1])

\* the bounds asked for at index -2 of a root with two daughters are those of
\* the first daughter and not those of the second
NegativeIndexWitness ==
    /\ ret.op = "subtree_bounds"
    /\ ret.args[1] = <<-2>>
    /\ Len(layout.kids) = 2
    /\ ret.exc = None
    /\ ret.val = subtree_bounds(self, <<0>>)
    /\ ret.val # subtree_bounds(self, <<1>>)

\* the calls that override the style of nodes
StyleCalls == {"set_node_style", "set_subtree_style", "set_leaf_style"}

\* the keyword arguments of a style call
StyleOpts(r) == r.args[Len(r.args)]

\* the keys a style override may have
StyleKeys == {"debug", "font_style", "font_size", "text_color", "text_stroke"}

\* C10: set_node_style, set_subtree_style and set_leaf_style accept only the
\* keys debug, font_style, font_size, text_color and text_stroke: a call
\* with any other key raises TypeError, changes the options of no node, lays
\* nothing out again and leaves the annotations as they were, also when it
\* has allowed keys too; a call with allowed keys only raises no TypeError.
StyleKeysChecked ==
    [][(nops' = nops + 1 /\ ret'.op \in StyleCalls) =>
          IF DOMAIN StyleOpts(ret') \subseteq StyleKeys
          THEN ret'.exc # TypeError
          ELSE /\ ret'.exc = TypeError
               /\ layout' = layout
               /\ heap' = heap
               /\ annotations' = annotations
               /\ <<level_heights, level_ys, depth, max_width>>' =
                      <<level_heights, level_ys, depth, max_width>>]_vars

\* after a constituent has been boxed, a style call on a valid path with the
\* keys font_size and vert_align has raised TypeError and the box is there
StyleKeysCheckedWitness ==
    /\ ret.op = "set_subtree_style"
    /\ ret.exc = TypeError
    /\ DOMAIN StyleOpts(ret) = {"font_size", "vert_align"}
    /\ FirstInvalid(layout, ret.args[1], 0) = -1
    /\ Len(annotations) = 1
    /\ annotations[1].shape = "Rect"

RECURSIVE PathsOf(_)
\* the paths of the positions of a layout, every index counted from 0
PathsOf(t) ==
    {<<>>} \cup UNION {{<<i - 1>> \o q : q \in PathsOf(t.kids[i])} : i \in 1..Len(t.kids)}

RECURSIVE PosAt(_, _)
\* the position of a layout at a path whose indices are counted from 0
PosAt(t, path) ==
    IF path = <<>> THEN t ELSE PosAt(t.kids[Head(path) + 1], Tail(path))

\* path p leads to or through path q
IsPrefix(p, q) == Len(p) <= Len(q) /\ SubSeq(q, 1, Len(p)) = p

\* the nodes of layout t whose options the style call r sets: the node at its
\* path, every node at or under its path, every leaf
Covers(r, t, q) ==
    IF r.op = "set_node_style" THEN q = FromStartPath(t, r.args[1])
    ELSE IF r.op = "set_subtree_style" THEN IsPrefix(FromStartPath(t, r.args[1]), q)
    ELSE r.op = "set_leaf_style" /\ Len(PosAt(t, q).kids) = 0

\* C11: when a style call returns, every node it covers has each option k
\* of the call at the value v given, for every kind of label, and the layout
\* is what the three passes give with the nodes' options as they now are;
\* every option the call does not set, and every option over a relayout,
\* stays as it was.
StyleOverrideHolds ==
    [][(/\ nops' = nops + 1
        /\ ret'.op \in StyleCalls \cup {"relayout"}
        /\ ret'.exc = None) =>
            /\ \A q \in PathsOf(layout) : \A k \in OptKeys :
                  PosAt(layout', q).node.options.val[k] =
                      IF /\ ret'.op \in StyleCalls
                         /\ Covers(ret', layout, q)
                         /\ k \in DOMAIN StyleOpts(ret')
                      THEN StyleOpts(ret')[k]
                      ELSE PosAt(layout, q).node.options.val[k]
            /\ Geometry(layout') =
                  Geometry(_do_layout(options, heap', tree, layout').layout)]_vars

\* the calls that annotate
AnnotationCalls == {"box_constituent", "underline_constituent", "movement_arrow"}

\* C12: box_constituent, underline_constituent and movement_arrow change
\* nothing but the annotations, extra_y and the list of movement arrows:
\* every node (x, width, inner_width, y, height, depth, options, edge
\* styles), the NodePos objects the tree owns, level_heights, level_ys,
\* depth and max_width are as they were.
AnnotationFrame ==
    [][(nops' = nops + 1 /\ ret'.op \in AnnotationCalls) =>
          /\ layout' = layout
          /\ heap' = heap
          /\ level_heights' = level_heights
          /\ level_ys' = level_ys
          /\ depth' = depth
          /\ max_width' = max_width
          /\ options' = options
          /\ tree' = tree]_vars

\* a box and then an underline have been drawn, the underline has raised
\* extra_y, and the nodes are where the constructor put them
AnnotationFrameWitness ==
    /\ ret.op = "underline_constituent"
    /\ ret.exc = None
    /\ calls = {"box_constituent", "underline_constituent"}
    /\ Len(annotations) = 2
    /\ RLt(<<1, 2>>, extra_y)
    /\ Len(layout.kids) = 2
    /\ Geometry(layout) = first.geometry

\* C13: extra_y starts at 0.5 and never decreases: every annotation, style
\* or relayout call leaves it at or above the value it had.
ExtraYMonotone ==
    /\ extra_y = <<1, 2>>
    /\ [][RLe(extra_y, extra_y')]_vars

\* an underline has raised extra_y and a relayout, which drops the
\* annotations, has kept it
ExtraYMonotoneWitness ==
    /\ ret.op = "relayout"
    /\ calls = {"underline_constituent", "relayout"}
    /\ annotations = <<>>
    /\ RLt(<<1, 2>>, extra_y)

\* C14 as stated: the edge drawn from a parent to its child i is the style
\* set for that pair with set_edge_style if there is one; only if there is
\* none it is Empty for a leaf child without leaf_edges, and else Direct or
\* IndirectDescent according to descend_direct.
ExplicitEdgeWins ==
    ret.op = "svg_build_tree" =>
        \A n \in 1..Len(ret.val) :
            LET e == ret.val[n]
                parent == PosAt(layout, e.parent)
            IN  e.edge =
                  IF e.i \in DOMAIN parent.node.edge_styles
                  THEN parent.node.edge_styles[e.i]
                  ELSE IF ~options.val.leaf_edges /\ Len(parent.kids[e.i + 1].kids) = 0
                  THEN "EmptyEdge"
                  ELSE IF parent.node.options.val.descend_direct THEN "EdgeStyle"
                  ELSE "IndirectDescent"

\* the spans [a[1], a[2]] and [b[1], b[2]] have a point in common
SpansOverlap(a, b) == RLe(a[1], b[2]) /\ RLe(b[1], a[2])

\* C15 as stated: no two arrows recorded in _movement_arrows have the same
\* y and overlapping horizontal spans [min(x1, x2), max(x1, x2)].
NoArrowCollision ==
    \A i \in 1..Len(_movement_arrows) : \A j \in 1..Len(_movement_arrows) :
        (i < j /\ _movement_arrows[i][3] = _movement_arrows[j][3]) =>
            ~SpansOverlap(_movement_arrows[i], _movement_arrows[j])

\* the same, for spans that are more than a point
NoWideArrowCollision ==
    \A i \in 1..Len(_movement_arrows) : \A j \in 1..Len(_movement_arrows) :
        (/\ i < j
         /\ _movement_arrows[i][3] = _movement_arrows[j][3]
         /\ RLt(_movement_arrows[i][1], _movement_arrows[i][2])
         /\ RLt(_movement_arrows[j][1], _movement_arrows[j][2])) =>
            ~SpansOverlap(_movement_arrows[i], _movement_arrows[j])

RECURSIVE FirstFreeSlot(_, _, _)
\* the first of y, y + 0.5, y + 1.0, ... at which no arrow of `prior` with
\* that y has a span overlapping `span`
FirstFreeSlot(prior, span, y) ==
    IF \E i \in 1..Len(prior) : prior[i][3] = y /\ SpansOverlap(prior[i], span)
    THEN FirstFreeSlot(prior, span, RAdd(y, <<1, 2>>))
    ELSE y

\* C16 as stated: the slot of a movement arrow is the first of base + 1.5,
\* base + 2.0, ... (base the baseline of the deepest intervening leaf) at
\* which no arrow placed before with that y has an overlapping span: with no
\* arrow before it is base + 1.5, and an earlier arrow with a disjoint span
\* never moves it to a later slot.
FirstFreeSlotChosen ==
    (ret.op = "movement_arrow" /\ ret.exc = None) =>
        LET placed == _movement_arrows[Len(_movement_arrows)]
            prior == SubSeq(_movement_arrows, 1, Len(_movement_arrows) - 1)
        IN  /\ ret.val[1] = placed[3]
            /\ placed[3] = FirstFreeSlot(prior, placed, RAdd(ret.val[2], <<3, 2>>))

\* the same while at most one arrow has been placed
FirstSlotWithoutPrior ==
    (ret.op = "movement_arrow" /\ ret.exc = None /\ Len(_movement_arrows) = 1) =>
        /\ ret.val[1] = _movement_arrows[1][3]
        /\ ret.val[1] = RAdd(ret.val[2], <<3, 2>>)

\* the last part of C16 alone: a second arrow whose span is disjoint from
\* the first arrow's is in the slot base + 1.5
DisjointArrowKeepsSlot ==
    (/\ ret.op = "movement_arrow" /\ ret.exc = None
     /\ Len(_movement_arrows) = 2
     /\ ~SpansOverlap(_movement_arrows[1], _movement_arrows[2])) =>
        _movement_arrows[2][3] = RAdd(ret.val[2], <<3, 2>>)

\* the height of the canvas, TreeLayout.em_height()
CanvasHeight == em_height(level_ys, level_heights, depth, extra_y)

\* C17: when movement_arrow has returned the canvas height em_height() is at
\* least the y of the slot chosen plus 0.5 em, also when the deepest leaf
\* between the two ends is above the deepest row of the tree; when
\* underline_constituent has returned it is at least the y of the underline
\* plus 0.5 em.
CanvasCoversAnnotation ==
    /\ (ret.op = "movement_arrow" /\ ret.exc = None) =>
          /\ ret.val[1] = _movement_arrows[Len(_movement_arrows)][3]
          /\ RLe(RAdd(ret.val[1], <<1, 2>>), CanvasHeight)
    /\ (ret.op = "underline_constituent" /\ ret.exc = None) =>
          RLe(RAdd(annotations[Len(annotations)].start[2], <<1, 2>>), CanvasHeight)

\* a second arrow has been drawn, between leaves that are above the deepest
\* row of the tree: the canvas ends more than 0.5 em under its slot
CanvasCoversAnnotationWitness ==
    /\ ret.op = "movement_arrow"
    /\ ret.exc = None
    /\ Len(_movement_arrows) = 2
    /\ RLt(ret.val[2], RSub(CanvasHeight, extra_y))
    /\ RLt(RAdd(ret.val[1], <<1, 2>>), CanvasHeight)

RECURSIVE MaxArity(_)
\* the largest number of children a node of the tree value t has
MaxArity(t) ==
    LET c == tree_split(t).children
        below == {MaxArity(c[i]) : i \in 1..Len(c)}
    IN  CHOOSE m \in below \cup {Len(c)} : \A k \in below \cup {Len(c)} : k <= m

\* C18: DivTreeLayout.render (and _repr_html_, which calls it) returns an
\* element for a tree whose nodes have zero, one or two children, and raises
\* NotImplementedError for a tree with a node of more than two children
UnsupportedAritySurfaced ==
    ret.op \in {"render", "_repr_html_"} =>
        IF MaxArity(tree) > 2 THEN ret.exc = NotImplementedError
        ELSE ret.exc = None

\* the part of it that holds: a tree that is one Element is rendered
ElementLeafRendered ==
    (ret.op \in {"render", "_repr_html_"} /\ tree.kind = "element") => ret.exc = None

\* the intrinsic em widths of the children of p together
KidsEmWidth(p) == RSum(Tup([i \in 1..Len(p.kids) |-> EmWidth(p.kids[i])]))

\* the parents whose label is wider than their children together
WideLabelParents == {p \in Parents : RLt(KidsEmWidth(p), p.node.orig_width)}

\* C19 as stated: where the children's intrinsic em widths sum to less than
\* the width of the node's label, the width share of a child is taken of the
\* label's width (TEXT spacing, where the shares are shares of em widths).
LabelWidthShares ==
    options.val.horiz_spacing = "TEXT" =>
        \A p \in WideLabelParents : \A i \in 1..Len(p.kids) :
            p.kids[i].node.width =
                RDiv(RMul(RInt(100), EmWidth(p.kids[i])), p.node.orig_width)

\* C19: where the children's intrinsic em widths sum to less than the width
\* of the node's label, the label's width is the denominator of the
\* children's inner widths (elsewhere the sum is); the width shares of the
\* children are taken of the sum of their weights in both cases.
LabelWidthDenominator ==
    \A p \in Parents : \A i \in 1..Len(p.kids) :
        /\ p.kids[i].node.inner_width =
              RDiv(RMul(RInt(100), p.kids[i].node.orig_width),
                   IF p \in WideLabelParents THEN p.node.orig_width ELSE KidsEmWidth(p))
        /\ p.kids[i].node.width =
              RDiv(RMul(RInt(100), Weight(p.kids[i])),
                   RSum(Tup([j \in 1..Len(p.kids) |-> Weight(p.kids[j])])))

\* TEXT spacing of a tree whose root label is wider than its two daughters
\* together, the daughters of different widths
LabelWidthDenominatorWitness ==
    /\ options.val.horiz_spacing = "TEXT"
    /\ layout \in WideLabelParents
    /\ Len(layout.kids) = 2
    /\ RLt(layout.kids[1].node.width, layout.kids[2].node.width)
    /\ RLt(RAdd(layout.kids[1].node.inner_width, layout.kids[2].node.inner_width), RInt(100))

\* C20 as stated: after normalization the width in percent of every node is
\* at least 1.
WidthAtLeastOne ==
    \A p \in SubtreeSet(layout) : RLe(RInt(1), p.node.width)

\* C20: the width of every node's label in ems (orig_width) is at least 1,
\* and after normalization the width in percent of every node is greater
\* than 0 and at most 100.
LabelWidthAtLeastOne ==
    \A p \in SubtreeSet(layout) :
        /\ RLe(RInt(1), p.node.orig_width)
        /\ RLt(RInt(0), p.node.width)
        /\ RLe(p.node.width, RInt(100))

\* a relayout of a tree in which a leaf with the label "" and no padding,
\* whose label is taken as 1 em wide, has a sister so wide that its own share
\* is less than 1 percent
LabelWidthAtLeastOneWitness ==
    /\ ret.op = "relayout" /\ ret.exc = None
    /\ options.val.leaf_padding = 0
    /\ \E p \in SubtreeSet(layout) :
          /\ p.node.text = <<>>
          /\ p.node.orig_width = RInt(1)
          /\ RLt(p.node.width, RInt(1))

\* the leaves of the whole tree, left to right, by canonical path
AllLeaves == leaf_ids(layout, <<>>)

\* the positions in AllLeaves of the leaves under path1 or under path2
UnderEnds(path1, path2) ==
    {i \in 1..Len(AllLeaves) :
        \/ IsPrefix(canonical(layout, path1), AllLeaves[i])
        \/ IsPrefix(canonical(layout, path2), AllLeaves[i])}

\* the positions from the first leaf under either end to the last one
Between(path1, path2) ==
    {i \in 1..Len(AllLeaves) :
        /\ \E j \in UnderEnds(path1, path2) : j <= i
        /\ \E j \in UnderEnds(path1, path2) : i <= j}

\* the deepest level of the leaves at the positions in S
DeepestOf(S) ==
    CHOOSE d \in {sublayout(layout, AllLeaves[i]).node.depth : i \in S} :
        \A i \in S : sublayout(layout, AllLeaves[i]).node.depth <= d

\* C21: leaf_span_iter(path1, path2) yields a contiguous run of the leaves of
\* the tree, left to right, that includes every leaf under path1 and every
\* leaf under path2, in either argument order and also when one path is an
\* ancestor of the other; deepest_intervening_leaf is the deepest level of
\* the leaves from the first to the last of them.
LeafSpanCoversEnds ==
    /\ (ret.op = "leaf_span_iter" /\ ret.exc = None) =>
          /\ \E a \in 1..Len(AllLeaves), b \in 1..Len(AllLeaves) :
                ret.val = SubSeq(AllLeaves, a, b)
          /\ \A i \in UnderEnds(ret.args[1], ret.args[2]) :
                \E k \in 1..Len(ret.val) : ret.val[k] = AllLeaves[i]
    /\ (ret.op = "deepest_intervening_leaf" /\ ret.exc = None) =>
          ret.val = DeepestOf(Between(ret.args[1], ret.args[2]))

\* the part of it that holds: ends of which neither is an ancestor of the
\* other (or the same node twice) give the leaves from the first leaf under
\* either end to the last one
LeafSpanOfSeparateEnds ==
    (/\ ret.op = "leaf_span_iter" /\ ret.exc = None
     /\ \/ canonical(layout, ret.args[1]) = canonical(layout, ret.args[2])
        \/ /\ ~IsPrefix(canonical(layout, ret.args[1]), canonical(layout, ret.args[2]))
           /\ ~IsPrefix(canonical(layout, ret.args[2]), canonical(layout, ret.args[1]))) =>
        \E a \in 1..Len(AllLeaves), b \in 1..Len(AllLeaves) :
            /\ ret.val = SubSeq(AllLeaves, a, b)
            /\ Between(ret.args[1], ret.args[2]) = a..b

\* the layout as the sizing pass of a relayout leaves it: widths and heights
\* in ems, before normalization
SizingPass ==
    _build_initial_layout(options, tree_depth(options, tree) - 1, heap, tree, layout, 0)

\* the width of the label of node n in ems of the tree's font size
OwnEm(n) == Scale(n.orig_width, n.options.val.font_size, options.val.font_size)

\* C22: after the sizing pass the width of every node is the larger of its
\* own label width, scaled by its font size, and the sum of the widths of its
\* children; so no parent is narrower than its children together, and
\* max_width is at least the sum of the widths of the labels of all leaves.
SizingWidths ==
    /\ \A p \in SubtreeSet(SizingPass) :
          /\ p.node.width = RMax(OwnEm(p.node), RSum(KidWidths(p)))
          /\ p.node.width = EmWidth(p)
          /\ RLe(RSum(KidWidths(p)), p.node.width)
    /\ RLe(RSum(Tup([i \in 1..Len(leaf_iter(layout)) |-> OwnEm(leaf_iter(layout)[i])])),
           max_width)

\* a style call has made a daughter's font larger than the tree's, so that
\* the root, whose own label is wider than the labels of its daughters
\* together, is as wide as its daughters
SizingWidthsWitness ==
    /\ ret.op = "set_node_style" /\ ret.exc = None
    /\ Len(layout.kids) = 2
    /\ \E i \in 1..2 : layout.kids[i].node.options.val.font_size > options.val.font_size
    /\ RLt(RAdd(layout.kids[1].node.orig_width, layout.kids[2].node.orig_width),
           layout.node.orig_width)
    /\ RLt(layout.node.orig_width, SizingPass.node.width)
    /\ max_width = SizingPass.node.width

\* the height of the row a node is in
RowHeight(n) == level_heights[n.depth]

\* C23: after the vertical pass every node lies inside its row: 0 <= y and
\* y + height <= level_heights[depth]; y is 0 under TOP and FULL, the row
\* height less the node's height under BOTTOM and half of that under CENTER;
\* under FULL the node's height is the row height.
RowContainment ==
    \A p \in SubtreeSet(layout) :
        /\ RLe(RInt(0), p.node.y)
        /\ RLe(RAdd(p.node.y, p.node.height), RowHeight(p.node))
        /\ p.node.y =
              CASE options.val.vert_align \in {"TOP", "FULL"} -> RInt(0)
                [] options.val.vert_align = "BOTTOM" ->
                      RSub(RowHeight(p.node), p.node.height)
                [] options.val.vert_align = "CENTER" ->
                      RDiv(RSub(RowHeight(p.node), p.node.height), RInt(2))
        /\ options.val.vert_align = "FULL" => p.node.height = RowHeight(p.node)

\* a style call has made the font of one node larger, under CENTER with
\* leaf_nodes_align: a leaf that is a daughter of the root stands in the
\* deepest row, lower than the top of that row
RowContainmentWitness ==
    /\ ret.op = "set_node_style" /\ ret.exc = None
    /\ options.val.vert_align = "CENTER"
    /\ options.val.leaf_nodes_align
    /\ depth = 2
    /\ \E p \in SubtreeSet(layout) : p.node.options.val.font_size = 32
    /\ \E i \in 1..Len(layout.kids) :
          /\ Len(layout.kids[i].kids) = 0
          /\ layout.kids[i].node.depth = 2
          /\ RLt(RInt(0), layout.kids[i].node.y)

\* the edge styles of every node, depth first
EdgeStyles(t) == Tup([i \in 1..Len(node_seq(t)) |-> node_seq(t)[i].edge_styles])

\* the last index of the path does not address a daughter of the node the
\* rest of the path leads to
InvalidDaughter(t, path) ==
    /\ Len(path) > 0
    /\ path_error(t, SubSeq(path, 1, Len(path) - 1)) = None
    /\ ~InRange(Len(sublayout(t, SubSeq(path, 1, Len(path) - 1)).kids), path[Len(path)])

\* C24: set_edge_style(path, style) whose last index does not address an
\* existing daughter of the parent node raises AttributeError ('Invalid
\* daughter index') and leaves the edge styles of every node as they were.
EdgeIndexChecked ==
    [][(/\ nops' = nops + 1
        /\ ret'.op = "set_edge_style"
        /\ InvalidDaughter(layout, ret'.args[1])) =>
            /\ ret'.exc.kind = "AttributeError"
            /\ ret'.exc.what = "Invalid daughter index"
            /\ EdgeStyles(layout') = EdgeStyles(layout)]_vars

\* the part of it that holds: an index that is too large raises the
\* AttributeError and changes no edge style
LargeEdgeIndexChecked ==
    [][(/\ nops' = nops + 1
        /\ ret'.op = "set_edge_style"
        /\ InvalidDaughter(layout, ret'.args[1])
        /\ ret'.args[1][Len(ret'.args[1])] >= 0) =>
            /\ ret'.exc.kind = "AttributeError"
            /\ ret'.exc.what = "Invalid daughter index"
            /\ EdgeStyles(layout') = EdgeStyles(layout)]_vars

\* C25: an edge style recorded with set_edge_style stays in force: a later
\* set_node_style, set_subtree_style, set_leaf_style or relayout that returns
\* leaves the edge styles of every node of the layout as they were.
EdgeStylePersists ==
    [][(/\ nops' = nops + 1
        /\ ret'.op \in StyleCalls \cup {"relayout"}
        /\ ret'.exc = None) =>
            EdgeStyles(layout') = EdgeStyles(layout)]_vars

\* the part of it that holds: the edge styles of a NodePos the tree owns,
\* which every layout pass takes over as it is
OwnedEdgeStylePersists ==
    [][(/\ nops' = nops + 1
        /\ ret'.op \in StyleCalls \cup {"relayout"}
        /\ ret'.exc = None) =>
            \A i \in 1..Len(node_seq(layout)) :
                node_seq(layout)[i].id # 0 =>
                    node_seq(layout')[i].edge_styles = node_seq(layout)[i].edge_styles]_vars

\* a NodePos the tree owns holds an edge style after a relayout
OwnedEdgeStylePersistsWitness ==
    /\ ret.op = "relayout"
    /\ \E i \in 1..Len(node_seq(layout)) :
          node_seq(layout)[i].id # 0 /\ node_seq(layout)[i].edge_styles # <<>>

\* C26: rendering with get_svg or _repr_svg_ adds every pending annotation
\* shape to the drawing exactly once, in the order of the annotation calls.
AnnotationsDrawnOnce ==
    ret.op \in {"get_svg", "_repr_svg_"} => ret.shapes = annotations

\* the part of it that holds: svg_build_tree adds every pending annotation
\* shape exactly once, in the order of the annotation calls
AnnotationsBuiltOnce ==
    ret.op = "svg_build_tree" => ret.shapes = annotations

\* C27: a movement arrow added to a layout whose annotation list holds no
\* other shape (none was added yet, or relayout() or a style call emptied the
\* list) is placed as on a layout with no arrows, in the first slot 1.5 em
\* under the deepest leaf between its ends
DiscardedArrowsFreeSlots ==
    (ret.op = "movement_arrow" /\ ret.exc = None /\ Len(annotations) = 2)
        => ret.val[1] = _movement_find_y(<<>>, <<0, 1>>, <<0, 1>>, RAdd(ret.val[2], <<3, 2>>))

\* an arrow added when no arrow was recorded before it is in the first slot
FirstArrowFirstSlot ==
    (ret.op = "movement_arrow" /\ ret.exc = None /\ Len(_movement_arrows) = 1)
        => ret.val[1] = RAdd(ret.val[2], <<3, 2>>)

\* C28: the object copy() returns has the original's value for every option
\* key, however the values were set, and a TreeLayout built with an options
\* object has that object's value for every key
CopyKeepsValues ==
    /\ ret.op = "copy" => \A k \in OptKeys : ret.val.val[k] = caller_options.val[k]
    /\ (ret.op = "TreeLayout" /\ nops > 0)
          => \A k \in OptKeys : options.val[k] = caller_options.val[k]

\* the copy has the original's value for every key that was given to the
\* constructor or set by item assignment and not deleted since, and the
\* default for every other key
CopyKeepsExplicit ==
    ret.op = "copy" =>
        \A k \in OptKeys :
            ret.val.val[k] = IF k \in caller_options.explicit
                             THEN caller_options.val[k] ELSE OptDefaults[k]

CopyKeepsExplicitWitness ==
    /\ ret.op = "copy"
    /\ "debug" \in caller_options.explicit
    /\ "__delitem__" \in calls
    /\ \E k \in OptKeys : ret.val.val[k] # OptDefaults[k]

\* C29: a set_node_style(P, ...) that returns leaves the options of every
\* node but the one at P, the options of the layout and the options object
\* of the caller as they were
NodeStyleFrame ==
    [][(ret'.op = "set_node_style" /\ ret'.exc = None) =>
          /\ options' = options
          /\ caller_options' = caller_options
          /\ PathsOf(layout') = PathsOf(layout)
          /\ \A q \in PathsOf(layout) \ {canonical(layout, ret'.args[1])} :
                PosAt(layout', q).node.options = PosAt(layout, q).node.options]_vars

NodeStyleFrameWitness ==
    /\ ret.op = "set_node_style"
    /\ ret.exc = None
    /\ ret.args[1] = <<-1>>
    /\ Len(layout.kids) = 2
    /\ PosAt(layout, <<1>>).node.options.val.font_size = 32
    /\ \A q \in PathsOf(layout) \ {<<1>>} : PosAt(layout, q).node.options.val.font_size # 32

\* the horizontal extent <<x, width>> of a bounding box
Extent(b) == <<b[1], b[3]>>

\* extent a lies within extent b
ExtentWithin(a, b) == RLe(b[1], a[1]) /\ RLe(RAdd(a[1], a[2]), RAdd(b[1], b[2]))

EveryBoundsMatchNode ==
    \A q \in PathsOf(layout) :
        /\ Extent(subtree_bounds(self, q)) = node_x_vals(layout, q)
        /\ \A n \in 0..Len(q) :
              ExtentWithin(Extent(subtree_bounds(self, q)),
                           Extent(subtree_bounds(self, SubSeq(q, 1, n))))

=============================================================================
